---------------------------- MODULE MCBatching ----------------------------
EXTENDS Batching

NoneRefused == {}
StartsRefused == {"start", "get"}

=============================================================================
