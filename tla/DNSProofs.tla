------------------------------ MODULE DNSProofs ------------------------------
(***************************************************************************)
(* The three promises of the DNS service, for any peers, domain names and  *)
(* number of changes, failures and switches of the exit node.              *)
(***************************************************************************)
EXTENDS DNS, SequenceTheorems, TLAPS

(***************************************************************************)
(* Where the holder of the mutex can be: what is left of the start on a    *)
(* desktop (a change of the mode enters it at its fifth step), of the      *)
(* start on Android, of a refresh.                                         *)
(***************************************************************************)
S1 == <<"setDNS">>
S2 == <<"read6", "setDNS">>
S3 == <<"read4", "read6", "setDNS">>
S4 == <<"policy", "read4", "read6", "setDNS">>
S5 == <<"configurator", "policy", "read4", "read6", "setDNS">>
S6 == <<"subscribe", "configurator", "policy", "read4", "read6", "setDNS">>
S7 == <<"read6", "subscribe", "configurator", "policy", "read4", "read6", "setDNS">>
S8 == <<"read4", "read6", "subscribe", "configurator", "policy", "read4", "read6",
        "setDNS">>
A1 == <<"setHandler">>
A2 == <<"subscribe", "setHandler">>
A3 == <<"read6", "subscribe", "setHandler">>
A4 == <<"read4", "read6", "subscribe", "setHandler">>
R1 == <<"read6">>
R2 == <<"read4", "read6">>

Desktop == {S1, S2, S3, S4, S5, S6, S7, S8}
Android == {A1, A2, A3, A4}
Refreshing == {R1, R2}
Programs == {<<>>} \cup Desktop \cup Android \cup Refreshing

Chosen == {S1, S2, S3}                \* the upstream has been chosen
Quiet == {<<>>} \cup Refreshing       \* no change of the mode is under way
HalfRead == {S2, S7, A3, R1}          \* got4 is about to be published
Published == {S6, A2}                 \* cfg is, the callback not yet registered
Whole == {<<>>, S1, S4, S5, A1}       \* nothing more needs to be read

(***************************************************************************)
(* The capture follows the mode wherever no change of it is under way.     *)
(***************************************************************************)
Matches ==
  /\ force => os = "all" /\ upstream = "public"
  /\ ~force /\ split => os = "awl"

Capture ==
  ~android =>
    /\ todo \in Chosen => (force => upstream = "public")
    /\ todo = S1 => cfg.up = upstream
    /\ isSystem /\ ~failed /\ stage # "closed" /\ todo \in Quiet =>
         Matches /\ (force => cfg.up = "public")

(***************************************************************************)
(* The addresses the resolver must have for a name; admin is this machine. *)
(***************************************************************************)
Right(a, ip, n) == IF Given(ip, n) = {} THEN a = None ELSE a \in Given(ip, n)
Correct4(m) ==
  \A n \in Names : Right(m[n], ip4, n) \/ (n = Admin /\ m[n] = AdminIP)
Correct6(m) == \A n \in Names : Right(m[n], ip6, n)

\* A change the callback is still going to be told of.
Pending == emits > 0 \/ (IF subscribed THEN events > 0 ELSE last)

\* What was read is current, or an event will say that it is not.
Current ==
  ~Pending =>
    /\ todo \in HalfRead => Correct4(got4)
    /\ todo \in Published \/ (subscribed /\ todo \in Whole) =>
         Correct4(cfg.v4) /\ Correct6(cfg.v6)

Types ==
  /\ emits \in Nat /\ events \in Nat
  /\ conf \in [Peers -> KnownPeer \cup {None}]
  /\ todo \in Programs
  /\ (todo \in Desktop => ~android) /\ (todo \in Android => android)
  /\ DOMAIN got4 = Names
  /\ configurator => ~android

\* The reverse table is made of the two tables published with it.
Backed == cfg.rev = Reverse(cfg.v4, cfg.v6)

IInv == Types /\ Capture /\ Current /\ Backed

(***************************************************************************)
(* Walking through the programs.                                           *)
(***************************************************************************)
LEMMA Heads ==
  /\ Head(S1) = "setDNS" /\ Head(S2) = "read6" /\ Head(S3) = "read4"
  /\ Head(S4) = "policy" /\ Head(S5) = "configurator" /\ Head(S6) = "subscribe"
  /\ Head(S7) = "read6" /\ Head(S8) = "read4"
  /\ Head(A1) = "setHandler" /\ Head(A2) = "subscribe" /\ Head(A3) = "read6"
  /\ Head(A4) = "read4" /\ Head(R1) = "read6" /\ Head(R2) = "read4"
BY DEF S1, S2, S3, S4, S5, S6, S7, S8, A1, A2, A3, A4, R1, R2

LEMMA Tails ==
  /\ Tail(S1) = <<>> /\ Tail(S2) = S1 /\ Tail(S3) = S2 /\ Tail(S4) = S3
  /\ Tail(S5) = S4 /\ Tail(S6) = S5 /\ Tail(S7) = S6 /\ Tail(S8) = S7
  /\ Tail(A1) = <<>> /\ Tail(A2) = A1 /\ Tail(A3) = A2 /\ Tail(A4) = A3
  /\ Tail(R1) = <<>> /\ Tail(R2) = R1
BY DEF S1, S2, S3, S4, S5, S6, S7, S8, A1, A2, A3, A4, R1, R2

LEMMA Lens ==
  /\ Len(<<>>) = 0
  /\ Len(S1) = 1 /\ Len(S2) = 2 /\ Len(S3) = 3 /\ Len(S4) = 4
  /\ Len(S5) = 5 /\ Len(S6) = 6 /\ Len(S7) = 7 /\ Len(S8) = 8
  /\ Len(A1) = 1 /\ Len(A2) = 2 /\ Len(A3) = 3 /\ Len(A4) = 4
  /\ Len(R1) = 1 /\ Len(R2) = 2
BY DEF S1, S2, S3, S4, S5, S6, S7, S8, A1, A2, A3, A4, R1, R2

LEMMA Numbers ==
  /\ 1 # 2 /\ 1 # 3 /\ 1 # 4 /\ 1 # 5 /\ 1 # 6 /\ 1 # 7 /\ 1 # 8
  /\ 2 # 3 /\ 2 # 4 /\ 2 # 5 /\ 2 # 6 /\ 2 # 7 /\ 2 # 8 /\ 3 # 4
  /\ 3 # 5 /\ 3 # 6 /\ 3 # 7 /\ 3 # 8 /\ 4 # 5 /\ 4 # 6 /\ 4 # 7
  /\ 4 # 8 /\ 5 # 6 /\ 5 # 7 /\ 5 # 8 /\ 6 # 7 /\ 6 # 8 /\ 7 # 8
OBVIOUS

LEMMA NotEmpty ==
  /\ S1 # <<>> /\ S2 # <<>> /\ S3 # <<>> /\ S4 # <<>> /\ S5 # <<>> /\ S6 # <<>>
  /\ S7 # <<>> /\ S8 # <<>> /\ A1 # <<>> /\ A2 # <<>> /\ A3 # <<>> /\ A4 # <<>>
  /\ R1 # <<>> /\ R2 # <<>>
BY DEF S1, S2, S3, S4, S5, S6, S7, S8, A1, A2, A3, A4, R1, R2

(* Which of these sets each program is in. *)
LEMMA AtEnd ==
  /\ <<>> \in Programs /\ <<>> \notin Desktop /\ <<>> \notin Android
  /\ <<>> \notin Chosen /\ <<>> \in Quiet
  /\ <<>> \notin HalfRead /\ <<>> \notin Published /\ <<>> \in Whole
  /\ <<>> # S1
BY NotEmpty, Zenon DEF Programs, Desktop, Android, Refreshing, Chosen, Quiet,
   HalfRead, Published, Whole

LEMMA AtS1 ==
  /\ S1 \in Programs /\ S1 \in Desktop /\ S1 \notin Android
  /\ S1 \in Chosen /\ S1 \notin Quiet
  /\ S1 \notin HalfRead /\ S1 \notin Published /\ S1 \in Whole
  /\ S1 # <<>>
<1>1. /\ S1 # S2 /\ S1 # S3 /\ S1 # S4 /\ S1 # S5 /\ S1 # S6 /\ S1 # S7 /\ S1 # S8
      /\ S1 # A2 /\ S1 # A3 /\ S1 # A4 /\ S1 # R2
  BY Lens, Numbers, ZenonT(40)
<1>2. /\ S1 # A1 /\ S1 # R1
  BY Heads, Zenon
<1> QED
  BY <1>1, <1>2, NotEmpty, Zenon
     DEF Programs, Desktop, Android, Refreshing, Chosen, Quiet, HalfRead,
         Published, Whole

LEMMA AtS2 ==
  /\ S2 \in Programs /\ S2 \in Desktop /\ S2 \notin Android
  /\ S2 \in Chosen /\ S2 \notin Quiet
  /\ S2 \in HalfRead /\ S2 \notin Published /\ S2 \notin Whole
  /\ S2 # S1 /\ S2 # <<>>
<1>1. /\ S2 # S1 /\ S2 # S3 /\ S2 # S4 /\ S2 # S5 /\ S2 # S6 /\ S2 # S7 /\ S2 # S8
      /\ S2 # A1 /\ S2 # A3 /\ S2 # A4 /\ S2 # R1
  BY Lens, Numbers, ZenonT(40)
<1>2. /\ S2 # A2 /\ S2 # R2
  BY Heads, Zenon
<1> QED
  BY <1>1, <1>2, NotEmpty, Zenon
     DEF Programs, Desktop, Android, Refreshing, Chosen, Quiet, HalfRead,
         Published, Whole

LEMMA AtS3 ==
  /\ S3 \in Programs /\ S3 \in Desktop /\ S3 \notin Android
  /\ S3 \in Chosen /\ S3 \notin Quiet
  /\ S3 \notin HalfRead /\ S3 \notin Published /\ S3 \notin Whole
  /\ S3 # S1 /\ S3 # <<>>
<1>1. /\ S3 # S1 /\ S3 # S2 /\ S3 # S4 /\ S3 # S5 /\ S3 # S6 /\ S3 # S7 /\ S3 # S8
      /\ S3 # A1 /\ S3 # A2 /\ S3 # A4 /\ S3 # R1 /\ S3 # R2
  BY Lens, Numbers, ZenonT(40)
<1>2. /\ S3 # A3
  BY Heads, Zenon
<1> QED
  BY <1>1, <1>2, NotEmpty, Zenon
     DEF Programs, Desktop, Android, Refreshing, Chosen, Quiet, HalfRead,
         Published, Whole

LEMMA AtS4 ==
  /\ S4 \in Programs /\ S4 \in Desktop /\ S4 \notin Android
  /\ S4 \notin Chosen /\ S4 \notin Quiet
  /\ S4 \notin HalfRead /\ S4 \notin Published /\ S4 \in Whole
  /\ S4 # S1 /\ S4 # <<>>
<1>1. /\ S4 # S1 /\ S4 # S2 /\ S4 # S3 /\ S4 # S5 /\ S4 # S6 /\ S4 # S7 /\ S4 # S8
      /\ S4 # A1 /\ S4 # A2 /\ S4 # A3 /\ S4 # R1 /\ S4 # R2
  BY Lens, Numbers, ZenonT(40)
<1>2. /\ S4 # A4
  BY Heads, Zenon
<1> QED
  BY <1>1, <1>2, NotEmpty, Zenon
     DEF Programs, Desktop, Android, Refreshing, Chosen, Quiet, HalfRead,
         Published, Whole

LEMMA AtS5 ==
  /\ S5 \in Programs /\ S5 \in Desktop /\ S5 \notin Android
  /\ S5 \notin Chosen /\ S5 \notin Quiet
  /\ S5 \notin HalfRead /\ S5 \notin Published /\ S5 \in Whole
  /\ S5 # S1 /\ S5 # <<>>
<1>1. /\ S5 # S1 /\ S5 # S2 /\ S5 # S3 /\ S5 # S4 /\ S5 # S6 /\ S5 # S7 /\ S5 # S8
      /\ S5 # A1 /\ S5 # A2 /\ S5 # A3 /\ S5 # A4 /\ S5 # R1 /\ S5 # R2
  BY Lens, Numbers, ZenonT(40)
<1> QED
  BY <1>1, NotEmpty, Zenon
     DEF Programs, Desktop, Android, Refreshing, Chosen, Quiet, HalfRead,
         Published, Whole

LEMMA AtS6 ==
  /\ S6 \in Programs /\ S6 \in Desktop /\ S6 \notin Android
  /\ S6 \notin Chosen /\ S6 \notin Quiet
  /\ S6 \notin HalfRead /\ S6 \in Published /\ S6 \notin Whole
  /\ S6 # S1 /\ S6 # <<>>
<1>1. /\ S6 # S1 /\ S6 # S2 /\ S6 # S3 /\ S6 # S4 /\ S6 # S5 /\ S6 # S7 /\ S6 # S8
      /\ S6 # A1 /\ S6 # A2 /\ S6 # A3 /\ S6 # A4 /\ S6 # R1 /\ S6 # R2
  BY Lens, Numbers, ZenonT(40)
<1> QED
  BY <1>1, NotEmpty, Zenon
     DEF Programs, Desktop, Android, Refreshing, Chosen, Quiet, HalfRead,
         Published, Whole

LEMMA AtS7 ==
  /\ S7 \in Programs /\ S7 \in Desktop /\ S7 \notin Android
  /\ S7 \notin Chosen /\ S7 \notin Quiet
  /\ S7 \in HalfRead /\ S7 \notin Published /\ S7 \notin Whole
  /\ S7 # S1 /\ S7 # <<>>
<1>1. /\ S7 # S1 /\ S7 # S2 /\ S7 # S3 /\ S7 # S4 /\ S7 # S5 /\ S7 # S6 /\ S7 # S8
      /\ S7 # A1 /\ S7 # A2 /\ S7 # A3 /\ S7 # A4 /\ S7 # R1 /\ S7 # R2
  BY Lens, Numbers, ZenonT(40)
<1> QED
  BY <1>1, NotEmpty, Zenon
     DEF Programs, Desktop, Android, Refreshing, Chosen, Quiet, HalfRead,
         Published, Whole

LEMMA AtS8 ==
  /\ S8 \in Programs /\ S8 \in Desktop /\ S8 \notin Android
  /\ S8 \notin Chosen /\ S8 \notin Quiet
  /\ S8 \notin HalfRead /\ S8 \notin Published /\ S8 \notin Whole
  /\ S8 # S1 /\ S8 # <<>>
<1>1. /\ S8 # S1 /\ S8 # S2 /\ S8 # S3 /\ S8 # S4 /\ S8 # S5 /\ S8 # S6 /\ S8 # S7
      /\ S8 # A1 /\ S8 # A2 /\ S8 # A3 /\ S8 # A4 /\ S8 # R1 /\ S8 # R2
  BY Lens, Numbers, ZenonT(40)
<1> QED
  BY <1>1, NotEmpty, Zenon
     DEF Programs, Desktop, Android, Refreshing, Chosen, Quiet, HalfRead,
         Published, Whole

LEMMA AtA1 ==
  /\ A1 \in Programs /\ A1 \notin Desktop /\ A1 \in Android
  /\ A1 \notin Chosen /\ A1 \notin Quiet
  /\ A1 \notin HalfRead /\ A1 \notin Published /\ A1 \in Whole
  /\ A1 # S1 /\ A1 # <<>>
<1>1. /\ A1 # S2 /\ A1 # S3 /\ A1 # S4 /\ A1 # S5 /\ A1 # S6 /\ A1 # S7 /\ A1 # S8
      /\ A1 # A2 /\ A1 # A3 /\ A1 # A4 /\ A1 # R2
  BY Lens, Numbers, ZenonT(40)
<1>2. /\ A1 # S1 /\ A1 # R1
  BY Heads, Zenon
<1> QED
  BY <1>1, <1>2, NotEmpty, Zenon
     DEF Programs, Desktop, Android, Refreshing, Chosen, Quiet, HalfRead,
         Published, Whole

LEMMA AtA2 ==
  /\ A2 \in Programs /\ A2 \notin Desktop /\ A2 \in Android
  /\ A2 \notin Chosen /\ A2 \notin Quiet
  /\ A2 \notin HalfRead /\ A2 \in Published /\ A2 \notin Whole
  /\ A2 # S1 /\ A2 # <<>>
<1>1. /\ A2 # S1 /\ A2 # S3 /\ A2 # S4 /\ A2 # S5 /\ A2 # S6 /\ A2 # S7 /\ A2 # S8
      /\ A2 # A1 /\ A2 # A3 /\ A2 # A4 /\ A2 # R1
  BY Lens, Numbers, ZenonT(40)
<1>2. /\ A2 # S2 /\ A2 # R2
  BY Heads, Zenon
<1> QED
  BY <1>1, <1>2, NotEmpty, Zenon
     DEF Programs, Desktop, Android, Refreshing, Chosen, Quiet, HalfRead,
         Published, Whole

LEMMA AtA3 ==
  /\ A3 \in Programs /\ A3 \notin Desktop /\ A3 \in Android
  /\ A3 \notin Chosen /\ A3 \notin Quiet
  /\ A3 \in HalfRead /\ A3 \notin Published /\ A3 \notin Whole
  /\ A3 # S1 /\ A3 # <<>>
<1>1. /\ A3 # S1 /\ A3 # S2 /\ A3 # S4 /\ A3 # S5 /\ A3 # S6 /\ A3 # S7 /\ A3 # S8
      /\ A3 # A1 /\ A3 # A2 /\ A3 # A4 /\ A3 # R1 /\ A3 # R2
  BY Lens, Numbers, ZenonT(40)
<1>2. /\ A3 # S3
  BY Heads, Zenon
<1> QED
  BY <1>1, <1>2, NotEmpty, Zenon
     DEF Programs, Desktop, Android, Refreshing, Chosen, Quiet, HalfRead,
         Published, Whole

LEMMA AtA4 ==
  /\ A4 \in Programs /\ A4 \notin Desktop /\ A4 \in Android
  /\ A4 \notin Chosen /\ A4 \notin Quiet
  /\ A4 \notin HalfRead /\ A4 \notin Published /\ A4 \notin Whole
  /\ A4 # S1 /\ A4 # <<>>
<1>1. /\ A4 # S1 /\ A4 # S2 /\ A4 # S3 /\ A4 # S5 /\ A4 # S6 /\ A4 # S7 /\ A4 # S8
      /\ A4 # A1 /\ A4 # A2 /\ A4 # A3 /\ A4 # R1 /\ A4 # R2
  BY Lens, Numbers, ZenonT(40)
<1>2. /\ A4 # S4
  BY Heads, Zenon
<1> QED
  BY <1>1, <1>2, NotEmpty, Zenon
     DEF Programs, Desktop, Android, Refreshing, Chosen, Quiet, HalfRead,
         Published, Whole

LEMMA AtR1 ==
  /\ R1 \in Programs /\ R1 \notin Desktop /\ R1 \notin Android
  /\ R1 \notin Chosen /\ R1 \in Quiet
  /\ R1 \in HalfRead /\ R1 \notin Published /\ R1 \notin Whole
  /\ R1 # S1 /\ R1 # <<>>
<1>1. /\ R1 # S2 /\ R1 # S3 /\ R1 # S4 /\ R1 # S5 /\ R1 # S6 /\ R1 # S7 /\ R1 # S8
      /\ R1 # A2 /\ R1 # A3 /\ R1 # A4 /\ R1 # R2
  BY Lens, Numbers, ZenonT(40)
<1>2. /\ R1 # S1 /\ R1 # A1
  BY Heads, Zenon
<1> QED
  BY <1>1, <1>2, NotEmpty, Zenon
     DEF Programs, Desktop, Android, Refreshing, Chosen, Quiet, HalfRead,
         Published, Whole

LEMMA AtR2 ==
  /\ R2 \in Programs /\ R2 \notin Desktop /\ R2 \notin Android
  /\ R2 \notin Chosen /\ R2 \in Quiet
  /\ R2 \notin HalfRead /\ R2 \notin Published /\ R2 \notin Whole
  /\ R2 # S1 /\ R2 # <<>>
<1>1. /\ R2 # S1 /\ R2 # S3 /\ R2 # S4 /\ R2 # S5 /\ R2 # S6 /\ R2 # S7 /\ R2 # S8
      /\ R2 # A1 /\ R2 # A3 /\ R2 # A4 /\ R2 # R1
  BY Lens, Numbers, ZenonT(40)
<1>2. /\ R2 # S2 /\ R2 # A2
  BY Heads, Zenon
<1> QED
  BY <1>1, <1>2, NotEmpty, Zenon
     DEF Programs, Desktop, Android, Refreshing, Chosen, Quiet, HalfRead,
         Published, Whole

(* The programs the operations start are among them. *)
StepNames == {"read4", "read6", "subscribe", "configurator", "setHandler", "policy",
              "setDNS"}

LEMMA Joined ==
  ASSUME NEW s \in Seq(StepNames), NEW t \in Seq(StepNames), NEW u \in Seq(StepNames),
         Len(u) = Len(s) + Len(t),
         \A i \in 1 .. Len(s) : u[i] = s[i],
         \A i \in 1 .. Len(t) : u[i + Len(s)] = t[i]
  PROVE  s \o t = u
<1>1. s \o t \in Seq(StepNames) /\ Len(s \o t) = Len(u)
  BY ConcatProperties
<1>2. ASSUME NEW i \in 1 .. Len(s \o t) PROVE (s \o t)[i] = u[i]
  <2>1. CASE i <= Len(s)
    BY <2>1, ConcatProperties
  <2>2. CASE i > Len(s)
    <3>1. i - Len(s) \in 1 .. Len(t)
      BY <2>2, <1>1
    <3> QED BY <2>2, <3>1, ConcatProperties
  <2> QED BY <2>1, <2>2, <1>1
<1> QED BY SeqEqual, <1>1, <1>2

LEMMA Starts ==
  /\ Refresh = R2 /\ Apply = S4
  /\ Refresh \o <<"subscribe", "configurator">> \o Apply = S8
  /\ Refresh \o <<"subscribe", "setHandler">> = A4
<1> DEFINE P1 == <<"policy">>
           P3 == <<"policy", "read4", "read6">>
           T2 == <<"subscribe", "configurator">>
           T4 == <<"read4", "read6", "subscribe", "configurator">>
<1>1. Refresh = R2
  BY Zenon DEF Refresh, R2
<1>2. P1 \o R2 = P3
  <2>1. P1 \in Seq(StepNames) /\ R2 \in Seq(StepNames) /\ P3 \in Seq(StepNames)
    BY DEF R2, StepNames
  <2>2. Len(P3) = Len(P1) + Len(R2)
    BY DEF R2
  <2>3. \A i \in 1 .. Len(P1) : P3[i] = P1[i]
    BY SMT
  <2>4. \A i \in 1 .. Len(R2) : P3[i + Len(P1)] = R2[i]
    BY DEF R2
  <2> QED BY Joined, <2>1, <2>2, <2>3, <2>4, Zenon
<1>3. P3 \o S1 = S4
  <2>1. P3 \in Seq(StepNames) /\ S1 \in Seq(StepNames) /\ S4 \in Seq(StepNames)
    BY DEF S1, S4, StepNames
  <2>2. Len(S4) = Len(P3) + Len(S1)
    BY DEF S1, S4
  <2>3. \A i \in 1 .. Len(P3) : S4[i] = P3[i]
    BY DEF S4
  <2>4. \A i \in 1 .. Len(S1) : S4[i + Len(P3)] = S1[i]
    BY DEF S1, S4
  <2> QED BY Joined, <2>1, <2>2, <2>3, <2>4, Zenon
<1>4. R2 \o T2 = T4
  <2>1. R2 \in Seq(StepNames) /\ T2 \in Seq(StepNames) /\ T4 \in Seq(StepNames)
    BY DEF R2, StepNames
  <2>2. Len(T4) = Len(R2) + Len(T2)
    BY DEF R2
  <2>3. \A i \in 1 .. Len(R2) : T4[i] = R2[i]
    BY DEF R2
  <2>4. \A i \in 1 .. Len(T2) : T4[i + Len(R2)] = T2[i]
    BY DEF R2
  <2> QED BY Joined, <2>1, <2>2, <2>3, <2>4, Zenon
<1>5. T4 \o S4 = S8
  <2>1. T4 \in Seq(StepNames) /\ S4 \in Seq(StepNames) /\ S8 \in Seq(StepNames)
    BY DEF S4, S8, StepNames
  <2>2. Len(S8) = Len(T4) + Len(S4)
    BY DEF S4, S8
  <2>3. \A i \in 1 .. Len(T4) : S8[i] = T4[i]
    BY DEF S8
  <2>4. \A i \in 1 .. Len(S4) : S8[i + Len(T4)] = S4[i]
    BY DEF S4, S8
  <2> QED BY Joined, <2>1, <2>2, <2>3, <2>4, Zenon
<1>6. R2 \o A2 = A4
  <2>1. R2 \in Seq(StepNames) /\ A2 \in Seq(StepNames) /\ A4 \in Seq(StepNames)
    BY DEF R2, A2, A4, StepNames
  <2>2. Len(A4) = Len(R2) + Len(A2)
    BY DEF R2, A2, A4
  <2>3. \A i \in 1 .. Len(R2) : A4[i] = R2[i]
    BY DEF R2, A4
  <2>4. \A i \in 1 .. Len(A2) : A4[i + Len(R2)] = A2[i]
    BY DEF R2, A2, A4
  <2> QED BY Joined, <2>1, <2>2, <2>3, <2>4, Zenon
<1> QED BY <1>1, <1>2, <1>3, <1>4, <1>5, <1>6, Zenon DEF Apply, S1, A2

(* Where each step is taken, and where it leads. *)
LEMMA AtRead4 ==
  ASSUME todo \in Programs, Step("read4"), Done
  PROVE  \/ todo = S3 /\ todo' = S2
         \/ todo = S8 /\ todo' = S7
         \/ todo = A4 /\ todo' = A3
         \/ todo = R2 /\ todo' = R1
BY Heads, Tails, ZenonT(40)
   DEF Programs, Desktop, Android, Refreshing, Step, Done

LEMMA AtRead6 ==
  ASSUME todo \in Programs, Step("read6"), Done
  PROVE  \/ todo = S2 /\ todo' = S1
         \/ todo = S7 /\ todo' = S6
         \/ todo = A3 /\ todo' = A2
         \/ todo = R1 /\ todo' = <<>>
BY Heads, Tails, ZenonT(40)
   DEF Programs, Desktop, Android, Refreshing, Step, Done

LEMMA AtSubscribe ==
  ASSUME todo \in Programs, Step("subscribe"), Done
  PROVE  (todo = S6 /\ todo' = S5) \/ (todo = A2 /\ todo' = A1)
BY Heads, Tails, ZenonT(40)
   DEF Programs, Desktop, Android, Refreshing, Step, Done

LEMMA AtSetHandler ==
  ASSUME todo \in Programs, Step("setHandler"), Done
  PROVE  todo = A1 /\ todo' = <<>>
BY Heads, Tails, ZenonT(40)
   DEF Programs, Desktop, Android, Refreshing, Step, Done

LEMMA AtConfigurator ==
  ASSUME todo \in Programs, Step("configurator"), Done
  PROVE  todo = S5 /\ todo' = S4
BY Heads, Tails, ZenonT(40)
   DEF Programs, Desktop, Android, Refreshing, Step, Done

LEMMA AtPolicy ==
  ASSUME todo \in Programs, Step("policy"), Done
  PROVE  todo = S4 /\ todo' = S3
BY Heads, Tails, ZenonT(40)
   DEF Programs, Desktop, Android, Refreshing, Step, Done

LEMMA AtSetDNS ==
  ASSUME todo \in Programs, Step("setDNS"), Done
  PROVE  todo = S1 /\ todo' = <<>>
BY Heads, Tails, ZenonT(40)
   DEF Programs, Desktop, Android, Refreshing, Step, Done

LEMMA AtFailure ==
  ASSUME todo \in Programs, Step("configurator") \/ Step("setDNS") \/ Step("policy")
  PROVE  todo \in {S1, S4, S5}
BY Heads DEF Programs, Desktop, Android, Refreshing, Step

(***************************************************************************)
(* Names.                                                                  *)
(***************************************************************************)
LEMMA MappingCorrect ==
  ASSUME NEW ip, NEW m \in Mappings(ip)
  PROVE  DOMAIN m = Names /\ \A n \in Names : Right(m[n], ip, n)
BY Zenon DEF Mappings, Right

LEMMA PeerIDs ==
  ASSUME conf \in [Peers -> KnownPeer \cup {None}]
  PROVE  /\ \A p \in Known : /\ p \in Peers /\ p \in Names /\ p # Admin
                             /\ Owners(p) = {p}
                             /\ conf[p] \in KnownPeer
         /\ DOMAIN ip4 = Known /\ DOMAIN ip6 = Known
         /\ \A p \in Known : /\ ip4[p] = conf[p].ip4 /\ ip4[p] \in Addr4
                             /\ ip4[p] # None
                             /\ ip6[p] = conf[p].ip6
<1>1. ASSUME NEW p \in Known
      PROVE  /\ p \in Peers /\ p \in Names /\ p # Admin
             /\ conf[p] \in KnownPeer
  BY NamesAssumption, Zenon DEF Known, Names
<1>2. ASSUME NEW p \in Known, NEW q \in Known, conf[q].name = p PROVE FALSE
  <2>1. conf[q] \in KnownPeer /\ p \in Peers /\ p \in Names
    BY <1>1
  <2>2. conf[q].name \in Domains \cup {None}
    BY <2>1 DEF KnownPeer
  <2> QED BY <1>2, <2>1, <2>2, NamesAssumption, NoneAssumption, Zenon
<1>3. ASSUME NEW p \in Known PROVE Owners(p) = {p}
  BY <1>2, <1>3, Zenon DEF Owners
<1>4. DOMAIN ip4 = Known /\ DOMAIN ip6 = Known
  BY Zenon DEF ip4, ip6
<1>5. ASSUME NEW p \in Known
      PROVE  ip4[p] = conf[p].ip4 /\ ip4[p] \in Addr4 /\ ip4[p] # None
             /\ ip6[p] = conf[p].ip6
  <2>1. ip4[p] = conf[p].ip4 /\ ip6[p] = conf[p].ip6
    BY Zenon DEF ip4, ip6
  <2>2. conf[p].ip4 \in Addr4
    BY <1>1 DEF KnownPeer
  <2> QED BY <2>1, <2>2, NoneAssumption, Zenon DEF Addr
<1> QED BY <1>1, <1>3, <1>4, <1>5, Zenon

(***************************************************************************)
(* The invariant holds at the start and every action keeps it.             *)
(***************************************************************************)
LEMMA InitHolds == Init => IInv
<1> SUFFICES ASSUME Init PROVE IInv
  OBVIOUS
<1>1. Types
  <2>1. conf \in [Peers -> KnownPeer \cup {None}]
    BY SavedAssumption DEF Init
  <2>2. emits \in Nat /\ events \in Nat
    BY DEF Init
  <2> QED BY <2>1, <2>2, AtEnd, Zenon DEF Init, Types, Empty
<1>2. Capture
  BY AtEnd, Zenon DEF Init, Capture
<1>3. Current
  BY AtEnd, Zenon DEF Init, Current
<1>4. Backed
  <2>1. \A n \in Names : \A a \in Addr : Empty[n] # a
    BY NoneAssumption, Zenon DEF Empty
  <2>2. cfg.rev = [a \in Addr |-> {}] /\ cfg.v4 = Empty /\ cfg.v6 = Empty
    BY DEF Init, NoConfig
  <2> QED BY <2>1, <2>2 DEF Backed, Reverse
<1> QED BY <1>1, <1>2, <1>3, <1>4, Zenon DEF IInv

LEMMA TypesKept == ASSUME IInv, [Next]_vars PROVE Types'
<1> USE DEF IInv
<1>1. ASSUME NEW p \in Peers, NEW new \in KnownPeer \cup {None}, PeerChanged(p, new)
      PROVE  Types'
  <2>1. conf' \in [Peers -> KnownPeer \cup {None}] /\ emits' \in Nat
    BY <1>1 DEF PeerChanged, Types
  <2> QED BY <1>1, <2>1, Zenon DEF PeerChanged, Types, flags, bus
<1>2. ASSUME NEW b \in BOOLEAN, initDNS(b) PROVE Types'
  BY <1>2, Starts, AtS8, Zenon DEF initDNS, Types, bus
<1>3. ASSUME NEW b \in BOOLEAN, ForceUpstreamDNS(b) PROVE Types'
  BY <1>3, Starts, AtS4, Zenon DEF ForceUpstreamDNS, Types, bus
<1>4. CASE initDNSAndroid
  BY <1>4, Starts, AtEnd, AtA4, Zenon DEF initDNSAndroid, Types, bus
<1>5. CASE KnownPeerChanged
  <2>1. events' \in Nat
    BY <1>5 DEF KnownPeerChanged, Types
  <2> QED BY <1>5, <2>1, Starts, AtR2, Zenon
     DEF KnownPeerChanged, Types, flags, bus
<1>6. CASE Close
  BY <1>6, Zenon DEF Close, Types, flags, bus
<1>7. CASE Read4
  <2>1. DOMAIN got4' = Names
    <3>1. PICK m \in DNSNamesMapping :
            got4' = IF android THEN m ELSE [m EXCEPT ![Admin] = AdminIP]
      BY <1>7, Zenon DEF Read4
    <3>2. DOMAIN m = Names
      BY MappingCorrect, Zenon DEF DNSNamesMapping
    <3> QED BY <3>1, <3>2
  <2>2. Step("read4") /\ Done
    BY <1>7, Zenon DEF Read4
  <2>3. /\ todo' \in Programs /\ (todo' \in Desktop => todo \in Desktop)
        /\ (todo' \in Android => todo \in Android)
    BY <2>2, AtRead4, AtS3, AtS2, AtS8, AtS7, AtA4, AtA3, AtR2, AtR1, Zenon DEF Types
  <2> QED BY <1>7, <2>1, <2>3, Zenon DEF Read4, Types, flags, bus
<1>8. CASE Read6
  <2>1. DOMAIN got4' = Names
    BY <1>8, Zenon DEF Read6, Empty
  <2>2. Step("read6") /\ Done
    BY <1>8, Zenon DEF Read6
  <2>3. /\ todo' \in Programs /\ (todo' \in Desktop => todo \in Desktop)
        /\ (todo' \in Android => todo \in Android)
    BY <2>2, AtRead6, AtS2, AtS1, AtS7, AtS6, AtA3, AtA2, AtR1, AtEnd, Zenon DEF Types
  <2> QED BY <1>8, <2>1, <2>3, Zenon DEF Read6, Types, flags, bus
<1>9. CASE Subscribe
  <2>1. Step("subscribe") /\ Done
    BY <1>9, Zenon DEF Subscribe
  <2>2. /\ todo' \in Programs /\ (todo' \in Desktop => todo \in Desktop)
        /\ (todo' \in Android => todo \in Android)
    BY <2>1, AtSubscribe, AtS6, AtS5, AtA2, AtA1, Zenon DEF Types
  <2>3. events' \in Nat
    BY <1>9 DEF Subscribe, Types
  <2> QED BY <1>9, <2>2, <2>3, Zenon DEF Subscribe, Types, flags, bus
<1>10. CASE SetDNSHandler
  BY <1>10, AtSetHandler, AtEnd, Zenon DEF SetDNSHandler, Types, bus
<1>11. CASE NewOSConfigurator
  BY <1>11, AtConfigurator, AtS5, AtS4, Zenon DEF NewOSConfigurator, Types, bus
<1>12. CASE ChooseDNSPolicy
  BY <1>12, AtPolicy, AtS4, AtS3, Zenon DEF ChooseDNSPolicy, Types, bus
<1>13. CASE SetDNS
  BY <1>13, AtSetDNS, AtS1, AtEnd, Zenon DEF SetDNS, Types, bus
<1>14. CASE StepFails
  BY <1>14, AtEnd, Zenon DEF StepFails, Types, flags, bus
<1>15. CASE UNCHANGED vars
  BY <1>15, Zenon DEF vars, Types, flags, bus
<1>16. CASE Emit
  <2>1. emits' \in Nat /\ events' \in Nat
    BY <1>16 DEF Emit, Types
  <2> QED BY <1>16, <2>1, Zenon DEF Emit, Types, flags
<1>17. CASE Cancel
  BY <1>17, Zenon DEF Cancel, Types, flags, bus
<1>18. CASE SubscriptionEnds
  <2>1. events' \in Nat
    BY <1>18 DEF SubscriptionEnds
  <2> QED BY <1>18, <2>1, Zenon DEF SubscriptionEnds, Types, flags
<1>19. CASE DNSStaysOff
  BY <1>19, Zenon DEF DNSStaysOff, Types, flags, bus
<1> QED BY <1>1, <1>2, <1>3, <1>4, <1>5, <1>6, <1>7, <1>8, <1>9, <1>10, <1>11, <1>12,
           <1>13, <1>14, <1>15, <1>16, <1>17, <1>18, <1>19, Zenon DEF Next, Steps

(* A change of the mode chooses the upstream, publishes it with the names, *)
(* and only then tells the system; a refresh publishes the one chosen.     *)
LEMMA CaptureKept == ASSUME IInv, [Next]_vars PROVE Capture'
<1>0. Types /\ Capture /\ todo \in Programs
  BY Zenon DEF IInv, Types
<1>1. ASSUME NEW p \in Peers, NEW new \in KnownPeer \cup {None}, PeerChanged(p, new)
      PROVE  Capture'
  BY <1>0, <1>1, Zenon DEF PeerChanged, Capture, Matches, flags, bus
<1>2. ASSUME NEW b \in BOOLEAN, initDNS(b) PROVE Capture'
  BY <1>2, Starts, AtS8, Zenon DEF initDNS, Capture
<1>3. ASSUME NEW b \in BOOLEAN, ForceUpstreamDNS(b) PROVE Capture'
  BY <1>3, Starts, AtS4, Zenon DEF ForceUpstreamDNS, Capture
<1>4. CASE initDNSAndroid
  BY <1>4, Zenon DEF initDNSAndroid, Capture
<1>5. CASE KnownPeerChanged
  BY <1>0, <1>5, Starts, AtEnd, AtR2, Zenon
     DEF KnownPeerChanged, Free, Capture, Matches, flags, bus
<1>6. CASE Close
  BY <1>0, <1>6, AtEnd, Zenon DEF Close, Capture, Free
<1>7. CASE Read4
  <2>1. Step("read4") /\ Done
    BY <1>7, Zenon DEF Read4
  <2>2. /\ todo' \in Chosen => todo \in Chosen
        /\ todo' \in Quiet => todo \in Quiet
        /\ todo' # S1
    BY <1>0, <2>1, AtRead4, AtS3, AtS2, AtS8, AtS7, AtA4, AtA3, AtR2, AtR1, Zenon
  <2> QED BY <1>0, <1>7, <2>2, Zenon DEF Read4, Capture, Matches, flags, bus
<1>8. CASE Read6
  <2>1. Step("read6") /\ Done
    BY <1>8, Zenon DEF Read6
  <2>2. /\ todo' \in Chosen => todo \in Chosen
        /\ todo' \in Quiet => todo \in Quiet
    BY <1>0, <2>1, AtRead6, AtS2, AtS1, AtS7, AtS6, AtA3, AtA2, AtR1, AtEnd, Zenon
  <2>3. cfg'.up = upstream
    BY <1>8 DEF Read6, ReceiveConfiguration
  <2> QED BY <1>0, <1>8, <2>2, <2>3, Zenon DEF Read6, Capture, Matches, flags, bus
<1>9. CASE Subscribe
  <2>1. Step("subscribe") /\ Done
    BY <1>9, Zenon DEF Subscribe
  <2>2. todo' \notin Chosen /\ todo' \notin Quiet /\ todo' # S1
    BY <1>0, <2>1, AtSubscribe, AtS5, AtA1, Zenon
  <2> QED BY <2>2, Zenon DEF Capture
<1>10. CASE SetDNSHandler
  <2>1. todo \in Android
    BY <1>0, <1>10, AtSetHandler, Zenon DEF SetDNSHandler, Android
  <2>2. android
    BY <1>0, <2>1, Zenon DEF Types
  <2> QED BY <1>10, <2>2, Zenon DEF SetDNSHandler, Capture
<1>11. CASE NewOSConfigurator
  BY <1>0, <1>11, AtConfigurator, AtS4, Zenon DEF NewOSConfigurator, Capture
<1>12. CASE ChooseDNSPolicy
  <2>1. force => upstream' = "public"
    BY <1>12, Zenon DEF ChooseDNSPolicy, chooseUpstream
  <2> QED BY <1>0, <1>12, <2>1, AtPolicy, AtS3, Zenon DEF ChooseDNSPolicy, Capture
<1>13. CASE SetDNS
  <2>1. todo = S1 /\ todo' = <<>>
    BY <1>0, <1>13, AtSetDNS, Zenon DEF SetDNS
  <2>2. Matches' /\ (force => cfg.up = "public")
    <3>1. ~android => (force => cfg.up = "public" /\ upstream = "public")
      BY <1>0, <2>1, AtS1, Zenon DEF Capture
    <3>2. ~android
      BY <1>0, <2>1, AtS1, Zenon DEF Types
    <3>3. os' = IF ~force /\ split THEN "awl" ELSE "all"
      BY <1>13, Zenon DEF SetDNS, chooseMatchDomains
    <3> QED BY <1>13, <3>1, <3>2, <3>3, Zenon DEF SetDNS, Matches
  <2> QED BY <1>0, <1>13, <2>1, <2>2, AtEnd, Zenon DEF SetDNS, Capture
<1>14. CASE StepFails
  BY <1>0, <1>14, AtEnd, Zenon DEF StepFails, Capture
<1>15. CASE UNCHANGED vars
  BY <1>0, <1>15, Zenon DEF vars, Capture, Matches, flags, bus
<1>16. CASE Emit
  BY <1>0, <1>16, Zenon DEF Emit, Capture, Matches, flags
<1>17. CASE Cancel
  BY <1>0, <1>17, Zenon DEF Cancel, Capture, Matches, flags
<1>18. CASE SubscriptionEnds
  BY <1>0, <1>18, Zenon DEF SubscriptionEnds, Capture, Matches, flags
<1>19. CASE DNSStaysOff
  BY <1>0, <1>19, Zenon DEF DNSStaysOff, Capture, Matches, flags
<1> QED BY <1>1, <1>2, <1>3, <1>4, <1>5, <1>6, <1>7, <1>8, <1>9, <1>10, <1>11, <1>12,
           <1>13, <1>14, <1>15, <1>16, <1>17, <1>18, <1>19, Zenon DEF Next, Steps

(* Correct is about conf and the map. *)
LEMMA GotStays ==
  ASSUME UNCHANGED <<conf, got4>>, Correct4(got4) PROVE Correct4(got4)'
BY Zenon DEF Correct4, Right, Given, ip4, Owners, Known

LEMMA CfgStays ==
  ASSUME UNCHANGED <<conf, cfg>>, Correct4(cfg.v4), Correct6(cfg.v6)
  PROVE  Correct4(cfg.v4)' /\ Correct6(cfg.v6)'
<1>1. Correct4(cfg.v4)'
  BY Zenon DEF Correct4, Right, Given, ip4, Owners, Known
<1>2. Correct6(cfg.v6)'
  BY Zenon DEF Correct6, Right, Given, ip6, Owners, Known
<1> QED BY <1>1, <1>2, Zenon

(* What a refresh reads is correct when it is read. *)
LEMMA ReadsCorrect4 == ASSUME Read4 PROVE Correct4(got4)'
<1>1. PICK m \in DNSNamesMapping :
        got4' = IF android THEN m ELSE [m EXCEPT ![Admin] = AdminIP]
  BY Zenon DEF Read4
<1>2. DOMAIN m = Names /\ \A n \in Names : Right(m[n], ip4, n)
  BY MappingCorrect, Zenon DEF DNSNamesMapping
<1>3. \A n \in Names : got4'[n] = m[n] \/ (n = Admin /\ got4'[n] = AdminIP)
  BY <1>1, <1>2
<1>4. conf' = conf
  BY Zenon DEF Read4
<1>5. \A n : Given(ip4, n)' = Given(ip4, n)
  BY <1>4, Zenon DEF Given, ip4, Owners, Known
<1> QED BY <1>2, <1>3, <1>5, Zenon DEF Correct4, Right

LEMMA ReadsCorrect6 ==
  ASSUME Read6
  PROVE  /\ Correct6(cfg.v6)'
         /\ Correct4(got4) => Correct4(cfg.v4)'
<1>1. PICK m \in DNSNamesMappingV6 : ReceiveConfiguration(got4, m)
  BY Zenon DEF Read6
<1>2. \A n \in Names : Right(m[n], ip6, n)
  BY <1>1, MappingCorrect, Zenon DEF DNSNamesMappingV6
<1>3. cfg'.v4 = got4 /\ cfg'.v6 = m
  BY <1>1 DEF ReceiveConfiguration
<1>4. conf' = conf
  BY Zenon DEF Read6
<1>5. \A n : Given(ip4, n)' = Given(ip4, n) /\ Given(ip6, n)' = Given(ip6, n)
  BY <1>4, Zenon DEF Given, ip4, ip6, Owners, Known
<1>6. Correct6(cfg.v6)'
  BY <1>2, <1>3, <1>5, Zenon DEF Correct6, Right
<1>7. Correct4(got4) => Correct4(cfg.v4)'
  BY <1>3, <1>5, Zenon DEF Correct4, Right
<1> QED BY <1>6, <1>7, Zenon

(* Steps that neither read nor publish names, nor lose an event. *)
LEMMA CurrentStays ==
  ASSUME Current, UNCHANGED <<conf, got4, cfg>>, Pending => Pending',
         todo' \in HalfRead => todo \in HalfRead,
         todo' \in Published => todo \in Published,
         subscribed' /\ todo' \in Whole => subscribed /\ todo \in Whole
  PROVE  Current'
BY GotStays, CfgStays, Zenon DEF Current

(* The names: a refresh reads the current ones, and a change after that    *)
(* leaves an event, which a callback registered later is given as well.    *)
LEMMA CurrentKept == ASSUME IInv, [Next]_vars PROVE Current'
<1>0. Types /\ Current /\ todo \in Programs /\ events \in Nat /\ emits \in Nat
  BY Zenon DEF IInv, Types
<1>1. ASSUME NEW p \in Peers, NEW new \in KnownPeer \cup {None}, PeerChanged(p, new)
      PROVE  Current'
  <2>1. emits' = emits + 1
    BY <1>1, Zenon DEF PeerChanged
  <2>2. emits' > 0
    BY <1>0, <2>1
  <2> QED BY <2>2, Zenon DEF Current, Pending
<1>2. ASSUME NEW b \in BOOLEAN, initDNS(b) PROVE Current'
  BY <1>2, Starts, AtS8, Zenon DEF initDNS, Current
<1>3. ASSUME NEW b \in BOOLEAN, ForceUpstreamDNS(b) PROVE Current'
  <2>1. todo = <<>> /\ todo' = S4
    BY <1>3, Starts, Zenon DEF ForceUpstreamDNS, Free
  <2> QED
    BY <1>0, <1>3, <2>1, CurrentStays, AtEnd, AtS4, Zenon
       DEF ForceUpstreamDNS, bus, Pending
<1>4. CASE initDNSAndroid
  BY <1>4, Starts, AtA4, Zenon DEF initDNSAndroid, Current
<1>5. CASE KnownPeerChanged
  BY <1>5, Starts, AtR2, Zenon DEF KnownPeerChanged, Current
<1>6. CASE Close
  BY <1>0, <1>6, CurrentStays, Zenon DEF Close, bus, Pending
<1>7. CASE Read4
  <2>1. Step("read4") /\ Done
    BY <1>7, Zenon DEF Read4
  <2>2. todo' \notin Published /\ todo' \notin Whole
    BY <1>0, <2>1, AtRead4, AtS2, AtS7, AtA3, AtR1, Zenon
  <2> QED BY <1>7, <2>2, ReadsCorrect4, Zenon DEF Current
<1>8. CASE Read6
  <2>1. Step("read6") /\ Done
    BY <1>8, Zenon DEF Read6
  <2>2. todo' \notin HalfRead /\ todo \in HalfRead
    BY <1>0, <2>1, AtRead6, AtS2, AtS1, AtS7, AtS6, AtA3, AtA2, AtR1, AtEnd, Zenon
  <2>3. Pending' = Pending
    BY <1>8, Zenon DEF Read6, bus, Pending
  <2> QED BY <1>0, <1>8, <2>2, <2>3, ReadsCorrect6, Zenon DEF Current
<1>9. CASE Subscribe
  <2>1. Step("subscribe") /\ Done
    BY <1>9, Zenon DEF Subscribe
  <2>2. todo' \notin HalfRead /\ todo' \notin Published /\ todo \in Published
    BY <1>0, <2>1, AtSubscribe, AtS6, AtS5, AtA2, AtA1, Zenon
  <2>3. Pending => Pending'
    BY <1>0, <1>9 DEF Subscribe, Pending
  <2> QED BY <1>0, <1>9, <2>2, <2>3, CfgStays, Zenon DEF Current, Subscribe
<1>10. CASE SetDNSHandler
  BY <1>0, <1>10, AtSetHandler, CurrentStays, AtA1, AtEnd, Zenon
     DEF SetDNSHandler, bus, Pending
<1>11. CASE NewOSConfigurator
  BY <1>0, <1>11, AtConfigurator, CurrentStays, AtS5, AtS4, Zenon
     DEF NewOSConfigurator, bus, Pending
<1>12. CASE ChooseDNSPolicy
  BY <1>0, <1>12, AtPolicy, AtS3, Zenon DEF ChooseDNSPolicy, Current
<1>13. CASE SetDNS
  BY <1>0, <1>13, AtSetDNS, CurrentStays, AtS1, AtEnd, Zenon DEF SetDNS, bus, Pending
<1>14. CASE StepFails
  <2>1. todo \in {S1, S4, S5} /\ todo' = <<>>
    BY <1>0, <1>14, AtFailure, Zenon DEF StepFails
  <2>2. todo \in Whole
    BY <2>1, AtS1, AtS4, AtS5, Zenon
  <2> QED BY <1>0, <1>14, <2>1, <2>2, CurrentStays, AtEnd, Zenon DEF StepFails, bus, Pending
<1>15. CASE UNCHANGED vars
  BY <1>0, <1>15, CurrentStays, Zenon DEF vars, bus, Pending
<1>16. CASE Emit
  <2>1. subscribed' => events' > 0
    BY <1>0, <1>16 DEF Emit
  <2>2. Pending'
    BY <1>16, <2>1, Zenon DEF Emit, Pending
  <2> QED BY <2>2, Zenon DEF Current
<1>17. CASE Cancel
  BY <1>0, <1>17, CurrentStays, Zenon DEF Cancel, bus, Pending
<1>18. CASE SubscriptionEnds
  <2>1. todo' = <<>> /\ ~subscribed'
    BY <1>18, Zenon DEF SubscriptionEnds, Free
  <2> QED BY <2>1, AtEnd, Zenon DEF Current
<1>19. CASE DNSStaysOff
  BY <1>0, <1>19, CurrentStays, Zenon DEF DNSStaysOff, bus, Pending
<1> QED BY <1>1, <1>2, <1>3, <1>4, <1>5, <1>6, <1>7, <1>8, <1>9, <1>10, <1>11, <1>12,
           <1>13, <1>14, <1>15, <1>16, <1>17, <1>18, <1>19, Zenon DEF Next, Steps

(* Only a refresh changes what the resolver answers from, and it builds    *)
(* both directions from the same names.                                    *)
LEMMA BackedKept == ASSUME IInv, [Next]_vars PROVE Backed'
<1>1. CASE Read6
  <2>1. PICK m \in DNSNamesMappingV6 : ReceiveConfiguration(got4, m)
    BY <1>1, Zenon DEF Read6
  <2>2. cfg'.v4 = got4 /\ cfg'.v6 = m /\ cfg'.rev = Reverse(got4, m)
    BY <2>1 DEF ReceiveConfiguration
  <2> QED BY <2>2, Zenon DEF Backed, Reverse
<1>2. ASSUME ~ Read6 PROVE cfg' = cfg
  BY <1>2, Zenon DEF Next, Steps, PeerChanged, Emit, initDNS, ForceUpstreamDNS,
     initDNSAndroid, DNSStaysOff, KnownPeerChanged, Cancel, SubscriptionEnds, Close,
     Read4, Subscribe, SetDNSHandler, NewOSConfigurator, ChooseDNSPolicy, SetDNS,
     StepFails, vars
<1>3. CASE cfg' = cfg
  BY <1>3, Zenon DEF IInv, Backed, Reverse
<1> QED BY <1>1, <1>2, <1>3, Zenon

LEMMA NextHolds == ASSUME IInv, [Next]_vars PROVE IInv'
BY TypesKept, CaptureKept, CurrentKept, BackedKept, PTL DEF IInv

LEMMA Invariant == Spec => []IInv
BY InitHolds, NextHolds, PTL DEF Spec

(***************************************************************************)
(* The theorems.                                                           *)
(***************************************************************************)
LEMMA SettledCorrect ==
  ASSUME IInv, subscribed, Settled
  PROVE  Correct4(cfg.v4) /\ Correct6(cfg.v6)
<1>1. todo = <<>> /\ events = 0 /\ emits = 0
  BY Zenon DEF Settled, Free
<1>2. ~Pending
  BY <1>1 DEF Pending
<1> QED BY <1>1, <1>2, AtEnd, Zenon DEF IInv, Current

LEMMA CorrectResolves ==
  ASSUME conf \in [Peers -> KnownPeer \cup {None}],
         Correct4(cfg.v4), Correct6(cfg.v6), NEW n \in Names \ {Admin}
  PROVE  LET own == Owners(n)
             A == dnsLocalDomainHandler(n, "A")
             AAAA == dnsLocalDomainHandler(n, "AAAA")
         IN /\ A.rcode = (IF own = {} THEN "NXDOMAIN" ELSE "NOERROR")
            /\ A.rcode = AAAA.rcode
            /\ own # {} => A.answer # {}
            /\ Given(ip6, n) # {} => AAAA.answer # {}
            /\ A.answer \subseteq Given(ip4, n) /\ AAAA.answer \subseteq Given(ip6, n)
<1> DEFINE own == Owners(n)
           A == dnsLocalDomainHandler(n, "A")
           AAAA == dnsLocalDomainHandler(n, "AAAA")
           a4 == cfg.v4[n]
           a6 == cfg.v6[n]
           g4 == Given(ip4, n)
           g6 == Given(ip6, n)
<1>1. IF g4 = {} THEN a4 = None ELSE a4 \in g4
  BY Zenon DEF Correct4, Right
<1>2. IF g6 = {} THEN a6 = None ELSE a6 \in g6
  BY Zenon DEF Correct6, Right
<1>3. None \notin g4 /\ None \notin g6
  BY Zenon DEF Given
<1>4. /\ own = {} => g4 = {} /\ g6 = {}
      /\ own # {} => g4 # {}
  <2>1. own = {} => g4 = {} /\ g6 = {}
    BY Zenon DEF Given
  <2>2. ASSUME NEW p \in own PROVE g4 # {}
    <3>1. p \in Known
      BY Zenon DEF Owners
    <3>2. ip4[p] # None
      BY <3>1, PeerIDs, Zenon
    <3> QED BY <3>2, Zenon DEF Given
  <2> QED BY <2>1, <2>2, Zenon
<1>5. A = IF a4 = None /\ a6 = None THEN [rcode |-> "NXDOMAIN", answer |-> {}]
          ELSE [rcode |-> "NOERROR", answer |-> {a4} \ {None}]
  BY DEF dnsLocalDomainHandler
<1>6. AAAA = IF a4 = None /\ a6 = None THEN [rcode |-> "NXDOMAIN", answer |-> {}]
             ELSE [rcode |-> "NOERROR", answer |-> {a6} \ {None}]
  BY DEF dnsLocalDomainHandler
<1> DEFINE Good ==
             /\ A.rcode = (IF own = {} THEN "NXDOMAIN" ELSE "NOERROR")
             /\ A.rcode = AAAA.rcode
             /\ own # {} => A.answer # {}
             /\ g6 # {} => AAAA.answer # {}
             /\ A.answer \subseteq g4 /\ AAAA.answer \subseteq g6
<1> HIDE DEF own, A, AAAA, a4, a6, g4, g6
<1>7. ASSUME own = {} PROVE Good
  <2>1. A = [rcode |-> "NXDOMAIN", answer |-> {}] /\ AAAA = A /\ g6 = {}
    BY <1>1, <1>2, <1>4, <1>5, <1>6, <1>7
  <2> QED BY <1>7, <2>1
<1>8. ASSUME own # {} PROVE Good
  <2>1. a4 # None /\ a4 \in g4
    BY <1>1, <1>3, <1>4, <1>8, Zenon
  <2>2. A.rcode = "NOERROR" /\ AAAA.rcode = "NOERROR"
    BY <1>5, <1>6, <2>1
  <2>3. A.answer = {a4} /\ AAAA.answer = {a6} \ {None}
    BY <1>5, <1>6, <2>1
  <2>4. g6 # {} => a6 # None
    BY <1>2, <1>3, Zenon
  <2>5. {a6} \ {None} \subseteq g6
    BY <1>2, Zenon
  <2> QED BY <1>8, <2>1, <2>2, <2>3, <2>4, <2>5, Zenon
<1>9. Good
  BY <1>7, <1>8, Zenon
<1> QED BY <1>9, Zenon DEF own, A, AAAA, g4, g6

(* Whatever changed while DNS started, was refreshed or switched modes:    *)
(* while the service follows the configuration and no change waits, a      *)
(* query is answered for the peers as they are now (initDNS,               *)
(* refreshDNSConfigLocked, WrapSubscriptionToCallback).                    *)
THEOREM NamesAreCurrent == Spec => []ResolvesKnownPeers
<1>1. IInv => ResolvesKnownPeers
  <2> SUFFICES ASSUME IInv, subscribed, Settled PROVE ResolvesKnownPeers
    BY Zenon DEF ResolvesKnownPeers
  <2>1. Correct4(cfg.v4) /\ Correct6(cfg.v6)
    BY SettledCorrect, Zenon
  <2>2. conf \in [Peers -> KnownPeer \cup {None}]
    BY Zenon DEF IInv, Types
  <2> QED BY <2>1, <2>2, CorrectResolves, Zenon DEF ResolvesKnownPeers
<1> QED BY Invariant, <1>1, PTL

LEMMA ReverseEntry ==
  ASSUME Backed, NEW a \in Addr
  PROVE  cfg.rev[a] = {n \in Names : cfg.v4[n] = a \/ cfg.v6[n] = a}
BY DEF Backed, Reverse

(* The names an address is published under are those of its peers.         *)
LEMMA NamesOfAddress ==
  ASSUME IInv, Correct4(cfg.v4), Correct6(cfg.v6), NEW a \in Addr \ {AdminIP},
         NEW n \in cfg.rev[a]
  PROVE  \E p \in Known : a \in {ip4[p], ip6[p]} /\ n \in {p, conf[p].name} /\ n # None
<1>0. a \in Addr
  OBVIOUS
<1>1. n \in Names /\ (cfg.v4[n] = a \/ cfg.v6[n] = a)
  BY <1>0, ReverseEntry, Zenon DEF IInv
<1>2. a # None /\ n # None
  BY <1>0, <1>1, NoneAssumption, Zenon
<1>3. a \in Given(ip4, n) \/ a \in Given(ip6, n)
  BY <1>1, <1>2, Zenon DEF Correct4, Correct6, Right
<1>4. PICK p \in Owners(n) : a = ip4[p] \/ a = ip6[p]
  BY <1>3, Zenon DEF Given
<1>5. p \in Known /\ n \in {p, conf[p].name}
  BY Zenon DEF Owners
<1> QED BY <1>2, <1>4, <1>5, Zenon

LEMMA AddressHasName ==
  ASSUME IInv, Correct4(cfg.v4), Correct6(cfg.v6), NEW a \in Addr,
         NEW p \in Known, a \in {ip4[p], ip6[p]}
  PROVE  p \in cfg.rev[a]
<1>1. p \in Names /\ p # Admin /\ Owners(p) = {p}
  BY PeerIDs, Zenon DEF IInv, Types
<1>2. a # None
  BY NoneAssumption, Zenon
<1>3. CASE a = ip4[p]
  <2>1. Given(ip4, p) = {a}
    BY <1>1, <1>2, <1>3, Zenon DEF Given
  <2>2. cfg.v4[p] = a
    BY <1>1, <2>1, Zenon DEF Correct4, Right
  <2> QED BY <1>1, <2>2, ReverseEntry, Zenon DEF IInv
<1>4. CASE a = ip6[p]
  <2>1. Given(ip6, p) = {a}
    BY <1>1, <1>2, <1>4, Zenon DEF Given
  <2>2. cfg.v6[p] = a
    BY <1>1, <2>1, Zenon DEF Correct6, Right
  <2> QED BY <1>1, <2>2, ReverseEntry, Zenon DEF IInv
<1> QED BY <1>3, <1>4, Zenon

(* While the service follows the configuration and no change waits, a      *)
(* reverse answer names a peer that has the address now, by a name it has  *)
(* now, and the address of nobody is left to the upstream                  *)
(* (ReceiveConfiguration, ptrHandler).                                     *)
THEOREM ReverseIsCurrent == Spec => []ReverseCurrent
<1>1. IInv => ReverseCurrent
  <2> SUFFICES ASSUME IInv, subscribed, Settled, NEW a \in Addr \ {AdminIP}
               PROVE  LET having == {p \in Known : a \in {ip4[p], ip6[p]}}
                      IN IF having = {} THEN ptrHandler(a) = {None}
                         ELSE ptrHandler(a) \subseteq
                                (UNION {{p, conf[p].name} : p \in having}) \ {None}
    BY Zenon DEF ReverseCurrent
  <2> DEFINE having == {p \in Known : a \in {ip4[p], ip6[p]}}
             names == (UNION {{p, conf[p].name} : p \in having}) \ {None}
  <2>1. Correct4(cfg.v4) /\ Correct6(cfg.v6)
    BY SettledCorrect, Zenon
  <2>2. \A n \in cfg.rev[a] : \E p \in having : n \in {p, conf[p].name} /\ n # None
    <3> SUFFICES ASSUME NEW n \in cfg.rev[a]
                 PROVE  \E p \in having : n \in {p, conf[p].name} /\ n # None
      BY Zenon
    <3>1. PICK p \in Known : a \in {ip4[p], ip6[p]} /\ n \in {p, conf[p].name} /\ n # None
      BY <2>1, NamesOfAddress, Zenon
    <3> QED BY <3>1, Zenon
  <2>3. having # {} => cfg.rev[a] # {}
    BY <2>1, AddressHasName, Zenon
  <2>4. ASSUME NEW n \in cfg.rev[a] PROVE n \in names
    <3>1. PICK p \in having : n \in {p, conf[p].name} /\ n # None
      BY <2>2, Zenon
    <3> HIDE DEF having
    <3>2. n \in UNION {{q, conf[q].name} : q \in having}
      BY <3>1
    <3> QED BY <3>1, <3>2
  <2>5. having = {} => cfg.rev[a] = {}
    BY <2>2, Zenon
  <2> HIDE DEF having, names
  <2>6. having = {} => ptrHandler(a) = {None}
    BY <2>5, Zenon DEF ptrHandler
  <2>7. having # {} => ptrHandler(a) = cfg.rev[a]
    BY <2>3, Zenon DEF ptrHandler
  <2>8. IF having = {} THEN ptrHandler(a) = {None} ELSE ptrHandler(a) \subseteq names
    BY <2>4, <2>6, <2>7, Zenon
  <2> QED BY <2>8, Zenon DEF having, names
<1> QED BY Invariant, <1>1, PTL

(* While an exit node is used, an accepted configuration sends every query *)
(* here and from here to the public upstream; without one, a system that   *)
(* routes by domain keeps its own resolver (chooseDNSPolicy,               *)
(* applyOSDNSConfigLocked).                                                *)
THEOREM QueriesDoNotLeak == Spec => []NoLeak
<1>1. IInv => NoLeak
  BY AtEnd, Zenon DEF IInv, Capture, Matches, NoLeak, Free
<1> QED BY Invariant, <1>1, PTL
=============================================================================
