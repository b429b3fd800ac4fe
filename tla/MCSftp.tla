------------------------------- MODULE MCSftp -------------------------------
(* A small instance of Sftp for TLC: a replica with two directories, one   *)
(* of them with a file, and another file.                                  *)
EXTENDS Sftp, TLC, Sequences

CONSTANTS a, b, f, g, c1, c2

(* One uri without a password, and one with a password that is not right.  *)
UriPassword == (c1 :> "none") @@ (c2 :> "wrong")

Tree == (a :> Root) @@ (b :> Root) @@ (f :> Root) @@ (g :> a)

(* What a server may offer so that a client has something to send.         *)
Usable == [c \in Context |->
    {M \in SUBSET Method : \/ "publickey" \in M /\ c \in Keys
                           \/ "interactive" \in M
                           \/ "password" \in M /\ Password[c] # "none"}]

(* A server that only takes keys; not every client has one.                *)
KeysOnly == [c \in Context |-> {{"publickey"}}]

-----------------------------------------------------------------------------
(* The uris of the replicas.                                               *)
P == INSTANCE Paths

Texts(C, n) == UNION {[1 .. k -> C] : k \in 1 .. n}

(* A port and its digits; without a port, 0. *)
Digits == (0 :> <<>>) @@ (1 :> <<"1">>) @@ (8 :> <<"8">>) @@ (10 :> <<"1", "0">>)
          @@ (18 :> <<"1", "8">>) @@ (81 :> <<"8", "1">>)

Address == {<<":", ":", "1">>, <<"a", ":", "8">>}

(* What a uri may be made of: no slash or @ in a login and, where there is *)
(* a password, no colon in it.                                             *)
Uris ==
    {u \in [rc : {0}, scheme : {<<"s">>, <<"a", "+", "s">>},
            user : {P!NULL} \cup Texts({"a", ":"}, 2),
            passwd : {P!NULL, <<>>} \cup Texts({"a", "1"}, 1),
            host : Texts({"a", "1"}, 2) \cup Address,
            port : DOMAIN Digits,
            path : {P!NULL} \cup {<<"/">> \o t : t \in Texts({"/", "@", ":"}, 2)}] :
        /\ u.user = P!NULL => u.passwd = P!NULL
        /\ u.user # P!NULL /\ u.passwd = P!NULL => ":" \notin P!Chars(u.user)}

Given(text) == IF text = P!NULL THEN <<>> ELSE text

WithDigits(u, digits) ==
    u.scheme \o <<":", "/", "/">> \o Given(u.user)
    \o (IF u.passwd = P!NULL THEN <<>> ELSE <<":">> \o u.passwd)
    \o (IF u.user = P!NULL THEN <<>> ELSE <<"@">>)
    \o (IF u.host \in Address THEN <<"[">> \o u.host \o <<"]">> ELSE u.host)
    \o (IF digits = <<>> THEN <<>> ELSE <<":">> \o digits)
    \o Given(u.path)

(* A uri comes apart into what it was made of.                             *)
ASSUME UrisComeApart ==
    \A u \in Uris : P!c_parse_uri(WithDigits(u, Digits[u.port])) = u

(* But a port with a 0 in front is octal, and with an 8 in it an error.    *)
ASSUME OctalPorts ==
    \A u \in Uris :
        u.port \in {10, 18} =>
            LET found == P!c_parse_uri(WithDigits(u, <<"0">> \o Digits[u.port]))
            IN  IF u.port = 18 THEN found.rc = 0 - 1
                ELSE found = [u EXCEPT !.port = 8]

(* csync_create takes the slashes off the end of a replica's uri, and with *)
(* them the only path that leads to the root of a server.                  *)
ASSUME RootHasNoPath ==
    \A u \in Uris :
        u.path = P!NULL =>
            LET given == WithDigits([u EXCEPT !.path = <<"/">>], Digits[u.port])
            IN  /\ P!c_parse_uri(given).path = <<"/">>
                /\ P!c_parse_uri(P!WithoutTrail(given, P!Slash)).path = P!NULL
=============================================================================
