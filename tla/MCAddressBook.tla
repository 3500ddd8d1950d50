--------------------------- MODULE MCAddressBook ----------------------------
(***************************************************************************)
(* The addresses a program might use, so chosen that names, literals and   *)
(* synthetic addresses meet.                                               *)
(***************************************************************************)
EXTENDS AddressBook, TLC

Server == <<"name", "server">>
Client == <<"name", "client">>
First  == <<"v4", 0>>          \* the first synthetic address
Mapped == <<"mapped", 0>>      \* the same, spelled ::ffff:198.18.0.0
Second == <<"v4", 1>>
First6 == <<"v6", 0>>

TwoFamilies == (4 :> 2) @@ (6 :> 1)

SomeListens == {<<Server, NoPort>>, <<Server, 1>>, <<NoHost, 1>>, <<First, 1>>,
                <<First6, NoPort>>}
SomeDials   == {<<Server, NoPort>>, <<First, 1>>, <<Mapped, NoPort>>}
SomeLocals  == {NoHost, Client, Second}
SomePairs   == {<<Server, NoPort>>, <<Server, 1>>, <<Client, NoPort>>, <<Second, 1>>}

(* An unnamed dialer, and the address it is given.                         *)
OneListen  == {<<Server, 1>>}
OneDial    == {<<Server, 1>>}
NoName     == {NoHost}
ByAddress  == {<<Server, NoPort>>, <<Second, NoPort>>}
=============================================================================
