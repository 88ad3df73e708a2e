------------------------ MODULE MCTransactionExecutor ------------------------
(***************************************************************************)
(* TransactionExecutor for TLC: graphs compiled from small stencils.       *)
(***************************************************************************)
EXTENDS TransactionExecutor, ProtocolConfig

Stencils ==
    [groups : {2}, pairs : {2}, bytes : {0, 2}, startup : BOOLEAN,
     stepDelay : BOOLEAN, any : BOOLEAN]

Compiled == {Compile(c) : c \in Stencils}
=============================================================================
