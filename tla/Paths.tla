-------------------------------- MODULE Paths --------------------------------
(***************************************************************************)
(* The string functions that paths and uris go through (c_path.c).  A      *)
(* string is a sequence of characters, of which only those matter that the *)
(* functions look at.                                                      *)
(***************************************************************************)
EXTENDS Integers, SequencesExt

Digit  == {"0", "1", "8"}
Letter == {"a", "s"}
Hex    == Digit \cup {"a"}

(* How many characters at the beginning, or at the end, are in C. *)
Lead(s, C)  == Max({n \in 0 .. Len(s) : \A i \in 1 .. n : s[i] \in C})
Trail(s, C) == Max({n \in 0 .. Len(s) :
                       \A i \in Len(s) - n + 1 .. Len(s) : s[i] \in C})

Chars(s)       == {s[i] : i \in 1 .. Len(s)}
Take(s, n)     == SubSeq(s, 1, n)
Skip(s, n)     == SubSeq(s, n + 1, Len(s))
WithoutTrail(s, C) == Take(s, Len(s) - Trail(s, C))

Slash == {"/"}

(* What the loops over "not a slash" leave: up to the last slash.          *)
UpToSlash(s) == WithoutTrail(s, Chars(s) \ Slash)

c_dirname(path) ==
    LET name   == WithoutTrail(path, Slash)
        parent == UpToSlash(name)
    IN  IF path = <<>> \/ (name # <<>> /\ parent = <<>>) THEN <<".">>
        ELSE IF name = <<>> \/ Len(parent) = 1 THEN <<"/">>
        ELSE WithoutTrail(parent, Slash)

(* Without a slash before the name, the path as it was given.              *)
c_basename(path) ==
    LET name   == WithoutTrail(path, Slash)
        parent == UpToSlash(name)
    IN  IF path = <<>> THEN <<".">>
        ELSE IF name = <<>> THEN <<"/">>
        ELSE IF parent = <<>> THEN path
        ELSE WithoutTrail(Skip(path, Len(parent)), Slash)

(* The directory with its slash, the name and the extension: what follows  *)
(* the last point that is not the first character, or a ~ at the end.      *)
c_split_path(path) ==
    LET n     == Len(UpToSlash(path))
        name  == Skip(path, n)
        point == {i \in 2 .. Len(name) : name[i] = "."}
        cut   == IF point # {} THEN Max(point)
                 ELSE IF Len(name) > 1 /\ name[Len(name)] = "~" THEN Len(name)
                 ELSE Len(name) + 1
    IN  [directory |-> Take(path, n), filename |-> Take(name, cut - 1),
         extension |-> Skip(name, cut - 1)]

(* The name of a conflict copy (_backup_path), at the time that mark       *)
(* stands for.                                                             *)
BackupName(path, mark) ==
    LET part == c_split_path(path)
    IN  part.directory \o part.filename \o <<mark>> \o part.extension

-----------------------------------------------------------------------------
(* c_parse_uri.  A component that is not found stays NULL, and the port 0. *)
NULL == <<"NULL">>

Nothing == [rc |-> 0, scheme |-> NULL, user |-> NULL, passwd |-> NULL,
            host |-> NULL, port |-> 0, path |-> NULL]

(* What follows the host and the port is a path, or nothing. *)
WithPath(found, rest) ==
    IF rest = <<>> THEN found
    ELSE IF rest[1] = "/" THEN [found EXCEPT !.path = rest]
    ELSE [found EXCEPT !.rc = 0 - 1]

DigitValue == [c \in Digit |-> CASE c = "0" -> 0 [] c = "1" -> 1 [] c = "8" -> 8]

Number(digits, base) ==
    FoldLeft(LAMBDA n, c : base * n + DigitValue[c], 0, digits)

(* strtoul with base 0: a 0 in front makes the number octal, or, with an x *)
(* (left out here), hexadecimal; it ends where its digits do.              *)
Port(s) ==
    LET octal == s[1] = "0"
        n     == Lead(s, IF octal THEN {"0", "1"} ELSE Digit)
    IN  [value |-> Number(Take(s, n), IF octal THEN 8 ELSE 10),
         rest  |-> Skip(s, n)]

(* Without a digit the path goes on behind the colon. *)
WithPort(found, rest) ==
    IF rest = <<>> \/ rest[1] # ":" THEN WithPath(found, rest)
    ELSE IF Len(rest) = 1 \/ rest[2] \notin Digit THEN WithPath(found, Tail(rest))
    ELSE LET port == Port(Tail(rest))
         IN  WithPath([found EXCEPT !.port = port.value], port.rest)

(* Only what looks like an address may be in brackets, which are left out. *)
WithHost(found, s) ==
    LET n       == Lead(Tail(s), Hex \cup {".", ":"})
        address == s # <<>> /\ s[1] = "[" /\ n + 2 <= Len(s) /\ s[n + 2] = "]"
        m       == Lead(s, Chars(s) \ {":", "/"})
    IN  IF address
        THEN WithPort([found EXCEPT !.host = SubSeq(s, 2, n + 1)],
                      Skip(s, n + 2))
        ELSE WithPort([found EXCEPT !.host = Take(s, m)], Skip(s, m))

(* The login ends at the first @, and the user at its last colon.          *)
WithLogin(found, s) ==
    LET n      == Lead(s, Chars(s) \ {"@", "/"})
        login  == Take(s, n)
        colons == {i \in 1 .. n : login[i] = ":"}
    IN  IF n = Len(s) \/ s[n + 1] # "@" THEN WithHost(found, s)
        ELSE WithHost(
                IF colons = {} THEN [found EXCEPT !.user = login]
                ELSE [found EXCEPT !.user   = Take(login, Max(colons) - 1),
                                   !.passwd = Skip(login, Max(colons))],
                Skip(s, n + 1))

c_parse_uri(uri) ==
    LET n      == Lead(uri, Letter \cup Digit \cup {"+", "-"})
        scheme == n < Len(uri) /\ uri[n + 1] = ":"
        found  == IF scheme THEN [Nothing EXCEPT !.scheme = Take(uri, n)]
                            ELSE Nothing
        rest   == IF scheme THEN Skip(uri, n + 1) ELSE uri
    IN  IF uri = <<>> THEN [Nothing EXCEPT !.rc = 0 - 1]
        ELSE IF Take(rest, 2) = <<"/", "/">> THEN WithLogin(found, Skip(rest, 2))
        ELSE WithPath(found, rest)
=============================================================================
