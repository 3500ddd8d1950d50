------------------------------- MODULE MCConn -------------------------------
(***************************************************************************)
(* Which goroutines use the connection in each run.                        *)
(***************************************************************************)
EXTENDS Conn

OnePipe    == {<<"client", "write">>, <<"server", "read">>}
ServerReads == {<<"server", "read">>}
=============================================================================
