---------------------------- MODULE Doors_proofs ----------------------------
(* Proofs about the doors of a node, for any number of programs, of        *)
(* requests and of messages, however the calls nest and whatever fails,    *)
(* and, at the end, about runstdio.                                        *)
EXTENDS Doors, RunStdio, FiniteSetTheorems, TLAPS

-----------------------------------------------------------------------------
(* The nesting of the calls.                                               *)

\* The call of the main menu, in which all others are made.
IsRoot(f) == f.for = "main" /\ f.door = None

\* A wait for the user on behalf of a door.
Asks(f) == f.for \in {"key", "ask"}

\* Where a call is says for whom it is made.
FrameOK(f) ==
  /\ f.at \in {"prompt", "bye"} => f.for = "main" /\ f.door = None
  /\ f.at \in {"accept", "loop", "read", "end", "dos"} =>
       f.for = "main" /\ f.door # None
  /\ f.at = "cmd" => f.for = "main"
  /\ f.at \in {"hot", "kill"} /\ f.for = "main" => f.door = None
  /\ f.for \in {"key", "ask"} => f.door # None
  /\ f.for = "chat" => f.door = None

\* Calls that make no others.
Leaves == {"prompt", "accept", "dos", "read", "kill"}

\* A stack of calls: the main menu's is the outermost, some make no others, a wait for a
\* door is made by the loop that serves it, and a door further in was started later.
Shape(s) ==
  /\ \A i \in DOMAIN s : FrameOK(s[i])
  /\ \A i \in DOMAIN s : IsRoot(s[i]) <=> i = Len(s)
  /\ \A i \in DOMAIN s : i > 1 => s[i].at \notin Leaves
  /\ \A i \in DOMAIN s : Asks(s[i]) => /\ i + 1 \in DOMAIN s
                                       /\ s[i + 1].at = "loop"
                                       /\ s[i + 1].door = s[i].door
  /\ \A i, j \in DOMAIN s :
       i < j /\ Serves(s[i]) /\ Serves(s[j]) => s[i].door > s[j].door

Well(s) == s \in Seq(Calls) /\ Shape(s)

\* The doors that a call attends to, and those that wait for a command or a key.
Attended(s) == {d \in Doors : \E i \in DOMAIN s : s[i].door = d}
Pending(f) == f.at = "cmd" \/ Asks(f)
Waited(s) == {d \in Doors : \E i \in DOMAIN s : s[i].door = d /\ Pending(s[i])}

\* What one call contributes to them.
AttendedBy(f) == {f.door} \ {None}
ServedBy(f) == IF Serves(f) /\ f.at \notin {"accept", "dos"} THEN {f.door} ELSE {}
WaitedBy(f) == IF Pending(f) THEN {f.door} \ {None} ELSE {}

\* A call on top of others.
LEMMA Pushed ==
  ASSUME NEW S, NEW s \in Seq(S), NEW f \in S, NEW t, t = <<f>> \o s
  PROVE  /\ t \in Seq(S) /\ t # <<>> /\ Len(t) = Len(s) + 1
         /\ DOMAIN t = 1 .. Len(s) + 1 /\ DOMAIN s = 1 .. Len(s)
         /\ Len(s) \in Nat
         /\ t[1] = f /\ Head(t) = f
         /\ \A i \in DOMAIN s : i + 1 \in DOMAIN t /\ t[i + 1] = s[i]
         /\ \A i \in DOMAIN t : i # 1 => i - 1 \in DOMAIN s /\ t[i] = s[i - 1]
  OBVIOUS

\* The calls below the innermost.
LEMMA Popped ==
  ASSUME NEW S, NEW s \in Seq(S), s # <<>>, NEW t, t = Tail(s)
  PROVE  /\ t \in Seq(S) /\ Len(t) = Len(s) - 1
         /\ DOMAIN t = 1 .. Len(s) - 1 /\ DOMAIN s = 1 .. Len(s)
         /\ Len(s) \in Nat \ {0}
         /\ Head(s) = s[1] /\ s[1] \in S /\ 1 \in DOMAIN s
         /\ \A i \in DOMAIN t : i + 1 \in DOMAIN s /\ t[i] = s[i + 1]
         /\ \A i \in DOMAIN s : i # 1 => i - 1 \in DOMAIN t /\ s[i] = t[i - 1]
  OBVIOUS

\* The innermost call goes on elsewhere.
LEMMA Replaced ==
  ASSUME NEW S, NEW s \in Seq(S), s # <<>>, NEW f \in S, NEW t, t = <<f>> \o Tail(s)
  PROVE  /\ t \in Seq(S) /\ t # <<>> /\ Len(t) = Len(s)
         /\ DOMAIN t = 1 .. Len(s) /\ DOMAIN s = 1 .. Len(s)
         /\ Len(s) \in Nat \ {0}
         /\ t[1] = f /\ Head(t) = f /\ Head(s) = s[1] /\ s[1] \in S
         /\ \A i \in DOMAIN s : i # 1 => t[i] = s[i]
  OBVIOUS

\* A door's number is positive.
LEMMA DoorTypes ==
  /\ Doors \subseteq Nat \ {None} /\ None \in Nat
  /\ \A f \in Calls : f.door \in Doors \/ f.door = None
  BY DoorsAssumption DEF Doors, None, Calls

\* What a call within a call adds to the doors.
LEMMA SetsPush ==
  ASSUME NEW s \in Seq(Calls), NEW f \in Calls, NEW t, t = <<f>> \o s
  PROVE  /\ Attended(t) = Attended(s) \cup AttendedBy(f)
         /\ Served(t) = Served(s) \cup ServedBy(f)
         /\ Waited(t) = Waited(s) \cup WaitedBy(f)
<1>1. /\ t \in Seq(Calls) /\ t # <<>> /\ Len(t) = Len(s) + 1
      /\ DOMAIN t = 1 .. Len(s) + 1 /\ DOMAIN s = 1 .. Len(s)
      /\ Len(s) \in Nat
      /\ t[1] = f /\ Head(t) = f
      /\ \A i \in DOMAIN s : i + 1 \in DOMAIN t /\ t[i + 1] = s[i]
      /\ \A i \in DOMAIN t : i # 1 => i - 1 \in DOMAIN s /\ t[i] = s[i - 1]
  BY Pushed
<1>2. 1 \in DOMAIN t
  BY <1>1
<1>4. Attended(t) = Attended(s) \cup AttendedBy(f)
  <2>1. \A d : d \in Attended(t) => d \in Attended(s) \cup AttendedBy(f)
    BY <1>1, <1>2, DoorTypes DEF Attended, AttendedBy
  <2>2. \A d : d \in Attended(s) => d \in Attended(t)
    BY <1>1, DoorTypes DEF Attended
  <2>3. {f.door} \ {None} \subseteq Attended(t)
    BY <1>1, <1>2, DoorTypes DEF Attended
  <2> QED
    BY <2>1, <2>2, <2>3 DEF AttendedBy
<1>5. Served(t) = Served(s) \cup ServedBy(f)
  <2>1. \A i \in DOMAIN s : i + 1 \in Loops(t) <=> i \in Loops(s)
    BY <1>1 DEF Loops
  <2>2. 1 \in Loops(t) <=> Serves(f) /\ f.at \notin {"accept", "dos"}
    BY <1>1, <1>2 DEF Loops
  <2>3. \A i \in Loops(s) : t[i + 1] = s[i] /\ i + 1 \in Loops(t)
    BY <2>1, <1>1 DEF Loops
  <2>4. \A i \in Loops(t) : i # 1 => i - 1 \in Loops(s) /\ t[i] = s[i - 1]
    <3> SUFFICES ASSUME NEW i \in Loops(t), i # 1
                 PROVE  i - 1 \in Loops(s) /\ t[i] = s[i - 1]
      OBVIOUS
    <3>1. i \in DOMAIN t /\ i - 1 \in DOMAIN s /\ t[i] = s[i - 1]
      BY <1>1 DEF Loops
    <3> QED
      BY <3>1 DEF Loops
  <2>5. \A d : d \in Served(s) => d \in Served(t)
    BY <2>3 DEF Served
  <2>6. \A d : d \in Served(t) => d \in Served(s) \/ (1 \in Loops(t) /\ d = f.door)
    <3> SUFFICES ASSUME NEW d \in Served(t), ~(1 \in Loops(t) /\ d = f.door)
                 PROVE  d \in Served(s)
      OBVIOUS
    <3>1. PICK i \in Loops(t) : t[i].door = d /\ d \in Doors
      BY DEF Served
    <3>2. i - 1 \in Loops(s) /\ t[i] = s[i - 1]
      BY <2>4, <3>1, <1>1
    <3> QED
      BY <3>1, <3>2 DEF Served
  <2>7. 1 \in Loops(t) => f.door \in Served(t)
    BY <1>1, <2>2, DoorTypes DEF Served, Serves
  <2> QED
    BY <2>2, <2>5, <2>6, <2>7 DEF ServedBy
<1>6. Waited(t) = Waited(s) \cup WaitedBy(f)
  <2>1. \A d : d \in Waited(s) => d \in Waited(t)
    BY <1>1, DoorTypes DEF Waited
  <2>2. \A d : d \in Waited(t) => d \in Waited(s) \/ (Pending(f) /\ d = f.door /\ d # None)
    BY <1>1, <1>2, DoorTypes DEF Waited
  <2>3. Pending(f) /\ f.door # None => f.door \in Waited(t)
    BY <1>1, <1>2, DoorTypes DEF Waited
  <2> QED
    BY <2>1, <2>2, <2>3 DEF WaitedBy
<1> QED
  BY <1>4, <1>5, <1>6

\* How the calls are related when the innermost has made the call f.
Called(s, t, f) ==
  /\ Well(t) /\ t # <<>> /\ t[1] = f
  /\ Attended(t) = Attended(s) \cup AttendedBy(f)
  /\ Served(t) = Served(s) \cup ServedBy(f)
  /\ Waited(t) = Waited(s) \cup WaitedBy(f)

\* A call within a call.
LEMMA ShapePush ==
  ASSUME NEW s \in Seq(Calls), s # <<>>, Shape(s), NEW f \in Calls, FrameOK(f),
         ~IsRoot(f), s[1].at \notin Leaves,
         Asks(f) => s[1].at = "loop" /\ s[1].door = f.door,
         Serves(f) => \A d \in Attended(s) : f.door > d,
         NEW t, t = <<f>> \o s
  PROVE  Called(s, t, f)
<1>1. /\ t \in Seq(Calls) /\ t # <<>> /\ Len(t) = Len(s) + 1
      /\ DOMAIN t = 1 .. Len(s) + 1 /\ DOMAIN s = 1 .. Len(s)
      /\ Len(s) \in Nat
      /\ t[1] = f /\ Head(t) = f
      /\ \A i \in DOMAIN s : i + 1 \in DOMAIN t /\ t[i + 1] = s[i]
      /\ \A i \in DOMAIN t : i # 1 => i - 1 \in DOMAIN s /\ t[i] = s[i - 1]
  BY Pushed
<1>2. 1 \in DOMAIN s /\ 1 \in DOMAIN t
  BY <1>1
<1>3. Shape(t)
  <2>1. \A i \in DOMAIN t : FrameOK(t[i])
    BY <1>1 DEF Shape
  <2>2. \A i \in DOMAIN t : IsRoot(t[i]) <=> i = Len(t)
    <3> SUFFICES ASSUME NEW i \in DOMAIN t PROVE IsRoot(t[i]) <=> i = Len(t)
      OBVIOUS
    <3>1. CASE i = 1
      BY <3>1, <1>1, <1>2
    <3>2. CASE i # 1
      BY <3>2, <1>1 DEF Shape
    <3> QED
      BY <3>1, <3>2
  <2>3. \A i \in DOMAIN t : i > 1 => t[i].at \notin Leaves
    <3> SUFFICES ASSUME NEW i \in DOMAIN t, i > 1 PROVE t[i].at \notin Leaves
      OBVIOUS
    <3>1. i - 1 \in DOMAIN s /\ t[i] = s[i - 1]
      BY <1>1
    <3>2. CASE i - 1 = 1
      BY <3>1, <3>2
    <3>3. CASE i - 1 > 1
      BY <3>1, <3>3 DEF Shape
    <3> QED
      BY <3>1, <3>2, <3>3, <1>1
  <2>4. \A i \in DOMAIN t : Asks(t[i]) => /\ i + 1 \in DOMAIN t
                                          /\ t[i + 1].at = "loop"
                                          /\ t[i + 1].door = t[i].door
    <3> SUFFICES ASSUME NEW i \in DOMAIN t, Asks(t[i])
                 PROVE  /\ i + 1 \in DOMAIN t /\ t[i + 1].at = "loop"
                        /\ t[i + 1].door = t[i].door
      OBVIOUS
    <3>1. CASE i = 1
      BY <3>1, <1>1, <1>2
    <3>2. CASE i # 1
      <4>1. i - 1 \in DOMAIN s /\ t[i] = s[i - 1]
        BY <3>2, <1>1
      <4>2. /\ (i - 1) + 1 \in DOMAIN s /\ s[(i - 1) + 1].at = "loop"
            /\ s[(i - 1) + 1].door = s[i - 1].door
        BY <4>1 DEF Shape
      <4>3. (i - 1) + 1 = i
        BY <1>1
      <4>4. i \in DOMAIN s /\ s[i].at = "loop" /\ s[i].door = t[i].door
        BY <4>1, <4>2, <4>3
      <4> QED
        BY <4>4, <1>1
    <3> QED
      BY <3>1, <3>2
  <2>5. \A i, j \in DOMAIN t :
          i < j /\ Serves(t[i]) /\ Serves(t[j]) => t[i].door > t[j].door
    <3> SUFFICES ASSUME NEW i \in DOMAIN t, NEW j \in DOMAIN t, i < j,
                        Serves(t[i]), Serves(t[j])
                 PROVE  t[i].door > t[j].door
      OBVIOUS
    <3>1. j - 1 \in DOMAIN s /\ t[j] = s[j - 1]
      BY <1>1
    <3>2. CASE i = 1
      <4>1. s[j - 1].door \in Attended(s)
        BY <3>1, <1>1, DoorTypes DEF Attended, Serves
      <4> QED
        BY <4>1, <3>1, <3>2, <1>1
    <3>3. CASE i # 1
      <4>1. i - 1 \in DOMAIN s /\ t[i] = s[i - 1] /\ i - 1 < j - 1
        BY <3>3, <1>1
      <4> QED
        BY <4>1, <3>1 DEF Shape
    <3> QED
      BY <3>2, <3>3
  <2> QED
    BY <2>1, <2>2, <2>3, <2>4, <2>5 DEF Shape
<1>4. /\ Attended(t) = Attended(s) \cup AttendedBy(f)
      /\ Served(t) = Served(s) \cup ServedBy(f)
      /\ Waited(t) = Waited(s) \cup WaitedBy(f)
  BY SetsPush
<1> QED
  BY <1>1, <1>3, <1>4 DEF Called, Well

\* How the calls are related when the innermost, for the same door and purpose, is f.
Renewed(s, t, f) ==
  /\ Well(t) /\ t # <<>> /\ t[1] = f
  /\ Attended(t) = Attended(s)
  /\ (f.at \in {"accept", "dos"} <=> s[1].at \in {"accept", "dos"}) =>
        Served(t) = Served(s)
  /\ Serves(f) /\ f.at \notin {"accept", "dos"} /\ s[1].at \in {"accept", "dos"} =>
        Served(t) = Served(s) \cup {f.door} /\ f.door \notin Served(s)
  /\ (Pending(f) <=> Pending(s[1])) => Waited(t) = Waited(s)
  /\ Waited(t) \subseteq Waited(s) \cup {f.door}

\* The innermost call goes on, for the same door and purpose.
LEMMA ShapeReplace ==
  ASSUME NEW s \in Seq(Calls), s # <<>>, Shape(s), NEW f \in Calls, FrameOK(f),
         f.for = s[1].for, f.door = s[1].door,
         NEW t, t = <<f>> \o Tail(s)
  PROVE  Renewed(s, t, f)
<1>1. /\ t \in Seq(Calls) /\ t # <<>> /\ Len(t) = Len(s)
      /\ DOMAIN t = 1 .. Len(s) /\ DOMAIN s = 1 .. Len(s)
      /\ Len(s) \in Nat \ {0}
      /\ t[1] = f /\ Head(t) = f /\ Head(s) = s[1] /\ s[1] \in Calls
      /\ \A i \in DOMAIN s : i # 1 => t[i] = s[i]
  BY Replaced
<1>2. 1 \in DOMAIN s /\ 1 \in DOMAIN t /\ DOMAIN s = DOMAIN t
  BY <1>1
<1>3. \A i \in DOMAIN s : t[i].for = s[i].for /\ t[i].door = s[i].door
  BY <1>1
<1>0. \A i \in DOMAIN s : s[i].door \in Nat /\ (s[i].door # None => s[i].door \in Doors)
  <2>1. \A i \in DOMAIN s : s[i] \in Calls
    OBVIOUS
  <2> QED
    BY <2>1, DoorTypes
<1>4. Shape(t)
  <2>1. \A i \in DOMAIN t : FrameOK(t[i])
    BY <1>1, <1>2 DEF Shape
  <2>2. \A i \in DOMAIN t : IsRoot(t[i]) <=> i = Len(t)
    BY <1>1, <1>2, <1>3 DEF Shape, IsRoot
  <2>3. \A i \in DOMAIN t : i > 1 => t[i].at \notin Leaves
    BY <1>1, <1>2 DEF Shape
  <2>4. \A i \in DOMAIN t : Asks(t[i]) => /\ i + 1 \in DOMAIN t
                                          /\ t[i + 1].at = "loop"
                                          /\ t[i + 1].door = t[i].door
    <3> SUFFICES ASSUME NEW i \in DOMAIN t, Asks(t[i])
                 PROVE  /\ i + 1 \in DOMAIN t /\ t[i + 1].at = "loop"
                        /\ t[i + 1].door = t[i].door
      OBVIOUS
    <3>1. i + 1 \in DOMAIN s /\ s[i + 1].at = "loop" /\ s[i + 1].door = s[i].door
      BY <1>2, <1>3 DEF Shape, Asks
    <3>2. t[i + 1] = s[i + 1]
      BY <1>1, <3>1
    <3> QED
      BY <3>1, <3>2, <1>2, <1>3
  <2>5. \A i, j \in DOMAIN t :
          i < j /\ Serves(t[i]) /\ Serves(t[j]) => t[i].door > t[j].door
    BY <1>2, <1>3 DEF Shape, Serves
  <2> QED
    BY <2>1, <2>2, <2>3, <2>4, <2>5 DEF Shape
<1>5. Attended(t) = Attended(s)
  BY <1>2, <1>3 DEF Attended
<1>6. (f.at \in {"accept", "dos"} <=> s[1].at \in {"accept", "dos"}) =>
         Served(t) = Served(s)
  <2> SUFFICES ASSUME f.at \in {"accept", "dos"} <=> s[1].at \in {"accept", "dos"}
               PROVE  Served(t) = Served(s)
    OBVIOUS
  <2>1. \A i \in DOMAIN s : /\ Serves(t[i]) <=> Serves(s[i])
                            /\ t[i].at \notin {"accept", "dos"} <=>
                                 s[i].at \notin {"accept", "dos"}
    BY <1>1, <1>3 DEF Serves
  <2>2. Loops(t) = Loops(s)
    BY <2>1, <1>2 DEF Loops
  <2>3. \A i \in Loops(s) : t[i].door = s[i].door
    BY <1>3 DEF Loops
  <2> QED
    BY <2>2, <2>3 DEF Served
<1>7. Serves(f) /\ f.at \notin {"accept", "dos"} /\ s[1].at \in {"accept", "dos"} =>
         Served(t) = Served(s) \cup {f.door} /\ f.door \notin Served(s)
  <2> SUFFICES ASSUME Serves(f), f.at \notin {"accept", "dos"},
                      s[1].at \in {"accept", "dos"}
               PROVE  Served(t) = Served(s) \cup {f.door} /\ f.door \notin Served(s)
    OBVIOUS
  <2>1. Loops(t) = Loops(s) \cup {1} /\ 1 \notin Loops(s)
    BY <1>1, <1>2, <1>3 DEF Loops, Serves
  <2>2. \A i \in Loops(s) : i \in DOMAIN s /\ i # 1 /\ t[i] = s[i] /\ Serves(s[i]) /\ 1 < i
    BY <2>1, <1>1 DEF Loops
  <2>3. Served(t) = Served(s) \cup {f.door}
    <3>1. f.door \in Doors /\ f.door \in Served(t)
      BY <2>1, <1>1, DoorTypes DEF Served, Serves
    <3>2. \A d \in Served(s) : d \in Served(t)
      BY <2>1, <2>2 DEF Served
    <3>3. \A d \in Served(t) : d = f.door \/ d \in Served(s)
      <4> SUFFICES ASSUME NEW d \in Served(t), d # f.door PROVE d \in Served(s)
        OBVIOUS
      <4>1. PICK i \in Loops(t) : t[i].door = d /\ d \in Doors
        BY DEF Served
      <4>2. i \in Loops(s)
        BY <4>1, <2>1, <1>1
      <4> QED
        BY <4>1, <4>2, <2>2 DEF Served
    <3> QED
      BY <3>1, <3>2, <3>3
  <2>4. Serves(s[1])
    BY DEF Serves
  <2>5. \A i \in Loops(s) : s[1].door > s[i].door
    BY <2>2, <2>4, <1>2 DEF Shape
  <2>6. \A i \in Loops(s) : s[i].door \in Nat /\ s[1].door \in Nat
    BY <2>2, <1>0, <1>2
  <2>7. \A i \in Loops(s) : s[i].door # f.door
    BY <2>5, <2>6
  <2> QED
    BY <2>3, <2>7 DEF Served
<1>8. Pending(f) <=> Pending(s[1]) => Waited(t) = Waited(s)
  <2> SUFFICES ASSUME Pending(f) <=> Pending(s[1]) PROVE Waited(t) = Waited(s)
    OBVIOUS
  <2>1. {j \in DOMAIN t : Pending(t[j])} = {j \in DOMAIN s : Pending(s[j])}
    BY <1>1, <1>2
  <2> QED
    BY <2>1, <1>2, <1>3 DEF Waited
<1>9. Waited(t) \subseteq Waited(s) \cup {f.door}
  BY <1>1, <1>2, DoorTypes DEF Waited
<1> QED
  BY <1>1, <1>4, <1>5, <1>6, <1>7, <1>8, <1>9 DEF Renewed, Well

\* The innermost call that serves a door serves the latest.
LEMMA Innermost ==
  ASSUME NEW s \in Seq(Calls), s # <<>>, Shape(s), Serves(s[1])
  PROVE  \A i \in DOMAIN s : i > 1 /\ s[i].door # None => s[1].door > s[i].door
<1> SUFFICES ASSUME NEW i \in DOMAIN s, i > 1, s[i].door # None
             PROVE  s[1].door > s[i].door
  OBVIOUS
<1>1. 1 \in DOMAIN s /\ DOMAIN s = 1 .. Len(s) /\ Len(s) \in Nat
  OBVIOUS
<1>2. s[i] \in Calls
  OBVIOUS
<1>3. s[i].for \in {"main", "key", "ask", "chat"}
  BY <1>2 DEF Calls
<1>4. CASE s[i].for = "main"
  BY <1>1, <1>4 DEF Shape, Serves
<1>5. CASE s[i].for = "chat"
  BY <1>5 DEF Shape, FrameOK
<1>6. CASE Asks(s[i])
  <2>1. i + 1 \in DOMAIN s /\ s[i + 1].at = "loop" /\ s[i + 1].door = s[i].door
    BY <1>6 DEF Shape
  <2>2. Serves(s[i + 1])
    BY <2>1 DEF Shape, FrameOK, Serves
  <2>3. 1 < i + 1
    BY <1>1
  <2>4. s[1].door > s[i + 1].door
    BY <2>1, <2>2, <2>3, <1>1 DEF Shape
  <2> QED
    BY <2>1, <2>4
<1> QED
  BY <1>3, <1>4, <1>5, <1>6 DEF Asks

\* How the calls are related when the innermost has ended.
Ended(s, t) ==
  /\ Well(t) /\ t # <<>> /\ t[1].at \notin Leaves
  /\ Asks(s[1]) => t[1].at = "loop" /\ t[1].door = s[1].door
  /\ Attended(s) = Attended(t) \cup AttendedBy(s[1])
  /\ Asks(s[1]) => Attended(t) = Attended(s)
  /\ Serves(s[1]) => s[1].door \notin Attended(t)
  /\ ~Serves(s[1]) \/ s[1].at \in {"accept", "dos"} => Served(t) = Served(s)
  /\ Serves(s[1]) /\ s[1].at \notin {"accept", "dos"} =>
        Served(t) = Served(s) \ {s[1].door} /\ s[1].door \in Served(s)
  /\ Waited(t) \subseteq Waited(s)
  /\ Asks(s[1]) => Waited(t) \subseteq Waited(s) \ {s[1].door}

\* The end of a call within another.
LEMMA ShapePop ==
  ASSUME NEW s \in Seq(Calls), s # <<>>, Shape(s), ~IsRoot(s[1]), NEW t, t = Tail(s)
  PROVE  Ended(s, t)
<1>1. /\ t \in Seq(Calls) /\ Len(t) = Len(s) - 1
      /\ DOMAIN t = 1 .. Len(s) - 1 /\ DOMAIN s = 1 .. Len(s)
      /\ Len(s) \in Nat \ {0}
      /\ Head(s) = s[1] /\ s[1] \in Calls /\ 1 \in DOMAIN s
      /\ \A i \in DOMAIN t : i + 1 \in DOMAIN s /\ t[i] = s[i + 1]
      /\ \A i \in DOMAIN s : i # 1 => i - 1 \in DOMAIN t /\ s[i] = t[i - 1]
  BY Popped
<1>2. Len(s) # 1
  BY <1>1 DEF Shape
<1>3. t # <<>> /\ 1 \in DOMAIN t /\ t[1] = s[2] /\ 2 \in DOMAIN s
  BY <1>1, <1>2
<1>4. t[1].at \notin Leaves
  BY <1>3 DEF Shape
<1>5. Shape(t)
  <2>1. \A i \in DOMAIN t : FrameOK(t[i])
    BY <1>1 DEF Shape
  <2>2. \A i \in DOMAIN t : IsRoot(t[i]) <=> i = Len(t)
    <3> SUFFICES ASSUME NEW i \in DOMAIN t PROVE IsRoot(t[i]) <=> i = Len(t)
      OBVIOUS
    <3>1. i + 1 \in DOMAIN s /\ t[i] = s[i + 1]
      BY <1>1
    <3>2. i + 1 = Len(s) <=> i = Len(t)
      BY <1>1
    <3> QED
      BY <3>1, <3>2 DEF Shape
  <2>3. \A i \in DOMAIN t : i > 1 => t[i].at \notin Leaves
    BY <1>1 DEF Shape
  <2>4. \A i \in DOMAIN t : Asks(t[i]) => /\ i + 1 \in DOMAIN t
                                          /\ t[i + 1].at = "loop"
                                          /\ t[i + 1].door = t[i].door
    <3> SUFFICES ASSUME NEW i \in DOMAIN t, Asks(t[i])
                 PROVE  /\ i + 1 \in DOMAIN t /\ t[i + 1].at = "loop"
                        /\ t[i + 1].door = t[i].door
      OBVIOUS
    <3>1. i + 1 \in DOMAIN s /\ t[i] = s[i + 1]
      BY <1>1
    <3>2. (i + 1) + 1 \in DOMAIN s /\ s[(i + 1) + 1].at = "loop"
          /\ s[(i + 1) + 1].door = s[i + 1].door
      BY <3>1 DEF Shape
    <3>3. i + 1 \in DOMAIN t
      BY <3>2, <1>1
    <3>4. t[i + 1] = s[(i + 1) + 1]
      BY <3>3, <1>1
    <3> QED
      BY <3>1, <3>2, <3>3, <3>4
  <2>5. \A i, j \in DOMAIN t :
          i < j /\ Serves(t[i]) /\ Serves(t[j]) => t[i].door > t[j].door
    <3> SUFFICES ASSUME NEW i \in DOMAIN t, NEW j \in DOMAIN t, i < j,
                        Serves(t[i]), Serves(t[j])
                 PROVE  t[i].door > t[j].door
      OBVIOUS
    <3>1. i + 1 \in DOMAIN s /\ t[i] = s[i + 1] /\ j + 1 \in DOMAIN s /\ t[j] = s[j + 1]
      BY <1>1
    <3>2. i + 1 < j + 1
      BY <1>1
    <3> QED
      BY <3>1, <3>2 DEF Shape
  <2> QED
    BY <2>1, <2>2, <2>3, <2>4, <2>5 DEF Shape
<1>6. Asks(s[1]) => t[1].at = "loop" /\ t[1].door = s[1].door
  BY <1>1, <1>3 DEF Shape
<1>7. Serves(s[1]) => \A d \in Attended(t) : s[1].door > d
  <2> SUFFICES ASSUME Serves(s[1]), NEW d \in Attended(t) PROVE s[1].door > d
    OBVIOUS
  <2>1. PICK i \in DOMAIN t : t[i].door = d /\ d \in Doors
    BY DEF Attended
  <2>2. i + 1 \in DOMAIN s /\ s[i + 1].door = d /\ i + 1 > 1 /\ d # None
    BY <2>1, <1>1, DoorTypes
  <2> QED
    BY <2>2, Innermost
<1>8. s = <<s[1]>> \o t
  BY <1>1
<1>9. /\ Attended(s) = Attended(t) \cup AttendedBy(s[1])
      /\ Served(s) = Served(t) \cup ServedBy(s[1])
      /\ Waited(s) = Waited(t) \cup WaitedBy(s[1])
  <2>1. FrameOK(s[1])
    BY <1>1 DEF Shape
  <2>2. PICK f \in Calls : f = s[1]
    BY <1>1
  <2>3. /\ FrameOK(f) /\ ~IsRoot(f) /\ s = <<f>> \o t
        /\ Asks(f) => t[1].at = "loop" /\ t[1].door = f.door
        /\ Serves(f) => \A d \in Attended(t) : f.door > d
    BY <1>6, <1>7, <1>8, <2>1, <2>2
  <2>4. /\ Attended(s) = Attended(t) \cup AttendedBy(f)
        /\ Served(s) = Served(t) \cup ServedBy(f)
        /\ Waited(s) = Waited(t) \cup WaitedBy(f)
    <3>1. \A u \in Seq(Calls), g \in Calls : \A v : v = <<g>> \o u =>
             /\ Attended(v) = Attended(u) \cup AttendedBy(g)
             /\ Served(v) = Served(u) \cup ServedBy(g)
             /\ Waited(v) = Waited(u) \cup WaitedBy(g)
      BY SetsPush
    <3>2. t \in Seq(Calls) /\ s = <<f>> \o t
      BY <1>1, <2>3
    <3> QED
      BY <3>1, <3>2, Zenon
  <2> QED
    BY <2>2, <2>4
<1>10. Asks(s[1]) => Attended(t) = Attended(s)
  <2> SUFFICES ASSUME Asks(s[1]), s[1].door # None PROVE s[1].door \in Attended(t)
    BY <1>9 DEF AttendedBy
  <2>1. s[1].door \in Doors /\ t[1].door = s[1].door
    BY <1>1, <1>6, DoorTypes
  <2> QED
    BY <1>3, <2>1 DEF Attended
<1>11. Serves(s[1]) => s[1].door \notin Attended(t)
  <2>1. s[1].door \in Nat
    BY <1>1, DoorTypes
  <2> QED
    BY <1>7, <2>1
<1>12. Served(t) \subseteq Attended(t)
  BY DEF Served, Loops, Attended
<1>13. Asks(s[1]) => s[1].door \notin Waited(t)
  <2> SUFFICES ASSUME Asks(s[1]), s[1].door \in Waited(t) PROVE FALSE
    OBVIOUS
  <2>1. PICK i \in DOMAIN t : t[i].door = s[1].door /\ Pending(t[i]) /\ s[1].door \in Doors
    BY DEF Waited
  <2>2. Serves(t[1]) /\ ~Pending(t[1]) /\ t[1].door = s[1].door
    BY <1>3, <1>5, <1>6, <2>1, DoorTypes DEF Shape, FrameOK, Serves, Pending, Asks
  <2>3. i # 1
    BY <2>1, <2>2
  <2>4. i > 1 /\ t[i].door # None
    BY <2>1, <2>3, <1>1, DoorTypes
  <2>5. t[1].door > t[i].door
    BY <2>2, <2>4, <1>1, <1>3, <1>5, Innermost
  <2> QED
    BY <2>5, <2>1, <2>2, DoorTypes
<1> QED
  BY <1>1, <1>3, <1>4, <1>5, <1>6, <1>9, <1>10, <1>11, <1>12, <1>13
     DEF ServedBy, WaitedBy, Ended, Well

\* The main menu's call alone.
LEMMA ShapeRoot ==
  ASSUME NEW f \in Calls, IsRoot(f), FrameOK(f), NEW t, t = <<f>>
  PROVE  /\ t \in Seq(Calls) /\ t # <<>> /\ t[1] = f /\ Shape(t)
         /\ Attended(t) = {} /\ Served(t) = {} /\ Waited(t) = {}
<1>1. t \in Seq(Calls) /\ t # <<>> /\ Len(t) = 1 /\ DOMAIN t = {1} /\ t[1] = f
  OBVIOUS
<1>2. f.for = "main" /\ f.door = None /\ f.door \notin Doors
  BY DoorTypes DEF IsRoot
<1>3. Shape(t)
  BY <1>1, <1>2 DEF Shape, Asks, Serves
<1> QED
  BY <1>1, <1>2, <1>3 DEF Attended, Served, Loops, Waited

\* Under the main menu's call there is none.
LEMMA RootAlone ==
  ASSUME NEW s \in Seq(Calls), s # <<>>, Shape(s), IsRoot(s[1])
  PROVE  /\ Len(s) = 1 /\ DOMAIN s = {1} /\ s[1] \in Calls /\ FrameOK(s[1])
         /\ Attended(s) = {} /\ Served(s) = {} /\ Waited(s) = {}
<1>1. 1 \in DOMAIN s /\ s[1] \in Calls
  OBVIOUS
<1>2. Len(s) = 1 /\ FrameOK(s[1])
  BY <1>1 DEF Shape
<1>3. DOMAIN s = {1}
  BY <1>2
<1>4. s[1].door \notin Doors
  BY DoorTypes DEF IsRoot
<1> QED
  BY <1>1, <1>2, <1>3, <1>4 DEF Attended, Served, Loops, Waited

\* A call that serves a door and waits for nothing: the door waits for nothing further out.
LEMMA NotWaited ==
  ASSUME NEW s \in Seq(Calls), s # <<>>, Shape(s), Serves(s[1]), ~Pending(s[1])
  PROVE  s[1].door \notin Waited(s)
<1> SUFFICES ASSUME s[1].door \in Waited(s) PROVE FALSE
  OBVIOUS
<1>1. PICK i \in DOMAIN s : s[i].door = s[1].door /\ Pending(s[i]) /\ s[1].door \in Doors
  BY DEF Waited
<1>2. i > 1 /\ s[i].door # None
  BY <1>1, DoorTypes
<1>3. s[1].door > s[i].door
  BY <1>2, Innermost
<1>4. s[1].door \in Nat
  BY <1>1, DoorTypes
<1> QED
  BY <1>1, <1>3, <1>4

\* Calls made at the start of a stack.
LEMMA Tops ==
  ASSUME NEW s \in Seq(Calls), s # <<>>, Shape(s)
  PROVE  Head(s) = s[1] /\ s[1] \in Calls /\ FrameOK(s[1]) /\ 1 \in DOMAIN s
<1>1. Head(s) = s[1] /\ s[1] \in Calls /\ 1 \in DOMAIN s
  OBVIOUS
<1> QED
  BY <1>1 DEF Shape

\* How the calls are related when the innermost has got to `at'.
GoneTo(s, t, at) ==
  /\ Well(t) /\ t # <<>> /\ t[1].at = at
  /\ t[1].for = s[1].for /\ t[1].door = s[1].door
  /\ Attended(t) = Attended(s)
  /\ (at \in {"accept", "dos"} <=> s[1].at \in {"accept", "dos"}) =>
        Served(t) = Served(s)
  /\ s[1].at = "accept" /\ at = "loop" =>
        Served(t) = Served(s) \cup {s[1].door} /\ s[1].door \notin Served(s)
  /\ at # "cmd" => Waited(t) \subseteq Waited(s)
  /\ Waited(t) \subseteq Waited(s) \cup {s[1].door}

\* The innermost call gets elsewhere, for a door whose loop is or is not under way.
LEMMA MoveCalls ==
  ASSUME NEW s \in Seq(Calls), s # <<>>, Shape(s), NEW at \in Frames,
         FrameOK([s[1] EXCEPT !.at = at]),
         NEW t, \/ t = <<[Head(s) EXCEPT !.at = at]>> \o Tail(s)
                \/ t = <<[Head(s) EXCEPT !.at = at, !.warned = FALSE]>> \o Tail(s)
  PROVE  GoneTo(s, t, at)
<1>1. Head(s) = s[1] /\ s[1] \in Calls /\ FrameOK(s[1])
  BY Tops
<1>2. PICK f : /\ t = <<f>> \o Tail(s)
               /\ f = [s[1] EXCEPT !.at = at] \/ f = [s[1] EXCEPT !.at = at, !.warned = FALSE]
  BY <1>1
<1>3. f \in Calls /\ f.at = at /\ f.for = s[1].for /\ f.door = s[1].door
  BY <1>1, <1>2 DEF Calls
<1>4. FrameOK(f)
  <2>1. PICK g : g = [s[1] EXCEPT !.at = at]
    OBVIOUS
  <2>2. g.at = at /\ g.for = s[1].for /\ g.door = s[1].door /\ FrameOK(g)
    BY <1>1, <2>1 DEF Calls
  <2> QED
    BY <1>3, <2>2 DEF FrameOK
<1>5. Renewed(s, t, f)
  BY <1>2, <1>3, <1>4, ShapeReplace
<1>6. s[1].at = "accept" /\ at = "loop" =>
         Served(t) = Served(s) \cup {s[1].door} /\ s[1].door \notin Served(s)
  BY <1>1, <1>3, <1>5 DEF FrameOK, Serves, Renewed
<1>7. at # "cmd" => Waited(t) \subseteq Waited(s)
  <2> SUFFICES ASSUME at # "cmd" PROVE Waited(t) \subseteq Waited(s)
    OBVIOUS
  <2>1. CASE Pending(f) <=> Pending(s[1])
    BY <2>1, <1>5 DEF Renewed
  <2>2. CASE ~(Pending(f) <=> Pending(s[1]))
    <3>1. s[1].at = "cmd" /\ ~Pending(f) /\ f.for = "main"
      BY <2>2, <1>1, <1>3 DEF Pending, Asks, FrameOK
    <3>2. CASE f.door = None
      BY <3>2, <1>5, DoorTypes DEF Waited, Renewed
    <3>3. CASE f.door # None
      BY <3>1, <3>3, <1>3, <1>5, NotWaited DEF Serves, Renewed, Well
    <3> QED
      BY <3>2, <3>3
  <2> QED
    BY <2>1, <2>2
<1> QED
  BY <1>3, <1>5, <1>6, <1>7 DEF Well, GoneTo, Renewed

\* How the calls are related when the innermost has finished a round for its door.
GoneOn(s, t) ==
  /\ Well(t) /\ t # <<>> /\ t[1].at \in {"loop", "end"} /\ t[1].door = s[1].door
  /\ Attended(t) = Attended(s) /\ Served(t) = Served(s)
  /\ Waited(t) \subseteq Waited(s) \ {s[1].door}

\* The loop of a door goes on, or is about to end.
LEMMA AfterCalls ==
  ASSUME NEW s \in Seq(Calls), s # <<>>, Shape(s), s[1].at \in {"loop", "read", "cmd"},
         s[1].door # None, NEW list, NEW p
  PROVE  \A t : t = After(list, p, s) => GoneOn(s, t)
<1>1. Head(s) = s[1] /\ s[1] \in Calls /\ FrameOK(s[1])
  BY Tops
<1> SUFFICES ASSUME NEW at \in {"loop", "end"},
                    NEW t, t = <<[Head(s) EXCEPT !.at = at]>> \o Tail(s)
             PROVE  GoneOn(s, t)
  BY DEF After
<1>2. at \in Frames /\ FrameOK([s[1] EXCEPT !.at = at])
  BY <1>1 DEF Frames, FrameOK, Calls
<1>3. /\ Well(t) /\ t # <<>> /\ t[1].at = at
      /\ t[1].for = s[1].for /\ t[1].door = s[1].door
      /\ Attended(t) = Attended(s) /\ Served(t) = Served(s)
      /\ Waited(t) \subseteq Waited(s)
  <2>1. GoneTo(s, t, at)
    BY <1>2, MoveCalls, Zenon
  <2> QED
    BY <2>1 DEF GoneTo
<1>4. Serves(t[1]) /\ ~Pending(t[1])
  BY <1>1, <1>3 DEF FrameOK, Serves, Pending, Asks
<1>5. t[1].door \notin Waited(t)
  BY <1>3, <1>4, NotWaited DEF Well
<1> QED
  BY <1>3, <1>5 DEF GoneOn

-----------------------------------------------------------------------------
(* What the actions do to the calls.                                       *)

\* The same doors are attended to, and the same served.
SameDoors(s, t) == Attended(t) = Attended(s) /\ Served(t) = Served(s)

\* Well nested calls of a node that is not killing its doors.
Going(t) == Well(t) /\ t # <<>> /\ t[1].at # "kill"

\* A door that waits for a command or for the user has its answer, and waits no more.
Replied ==
  \E d \in Waited(stack) : /\ Waited(stack') \subseteq Waited(stack) \ {d}
                           /\ ans' = [ans EXCEPT ![d] = proc[d] \in Alive]

\* No door is answered.
Silent == ans' = ans /\ Waited(stack') \subseteq Waited(stack)

\* A node message leaves the calls as they stand, or opens a chat.
LEMMA ProcessMsgCalls ==
  ASSUME NEW calls \in Seq(Calls), calls # <<>>, Shape(calls),
         calls[1].at \notin Leaves, ProcessMsg(calls)
  PROVE  /\ Going(stack') /\ SameDoors(calls, stack')
         /\ Waited(stack') = Waited(calls)
<1>1. CASE stack' = calls
  BY <1>1 DEF Going, Well, SameDoors, Leaves
<1>2. CASE stack' = <<Hot("chat", None)>> \o calls
  <2>1. PICK f : f = Hot("chat", None)
    OBVIOUS
  <2>2. /\ f \in Calls /\ f.at = "hot" /\ f.for = "chat" /\ f.door = None
    BY <2>1 DEF Hot, Calls, Frames
  <2>3. FrameOK(f) /\ ~IsRoot(f) /\ ~Asks(f) /\ ~Serves(f)
    BY <2>2 DEF FrameOK, IsRoot, Asks, Serves
  <2>4. PICK t : t = stack' /\ t = <<f>> \o calls
    BY <1>2, <2>1
  <2>5. Called(calls, t, f)
    BY <2>2, <2>3, <2>4, ShapePush
  <2>6. AttendedBy(f) = {} /\ ServedBy(f) = {} /\ WaitedBy(f) = {}
    BY <2>2, <2>3 DEF AttendedBy, ServedBy, WaitedBy
  <2> QED
    BY <2>2, <2>4, <2>5, <2>6 DEF Called, Going, SameDoors
<1> QED
  BY <1>1, <1>2 DEF ProcessMsg

\* When a wait for a key is over, the call is over or goes on, and a door that waits for
\* the user may get its answer.
LEMMA ReturnedCalls ==
  ASSUME TypeOK, Shape(stack), stack # <<>>, stack[1].at \in {"hot", "kill"},
         NEW key, NEW has \in BOOLEAN, Returned(key, has)
  PROVE  /\ Going(stack') /\ SameDoors(stack, stack')
         /\ Silent \/ Replied
         /\ line' \in BOOLEAN
<1>1. PICK s \in Seq(Calls) : s = stack
  BY DEF TypeOK
<1>2. Head(s) = s[1] /\ s[1] \in Calls /\ FrameOK(s[1]) /\ s # <<>> /\ Shape(s)
  BY <1>1, Tops
<1>3. ASSUME Top.for = "main", MainPrompt(key, has), ans' = ans
      PROVE  /\ Going(stack') /\ SameDoors(stack, stack') /\ Silent
             /\ line' \in BOOLEAN
  <2>1. PICK at \in {"cmd", "prompt"} : stack' = <<Frame(at, None)>>
    BY <1>3 DEF MainPrompt
  <2>2. PICK f : f = Frame(at, None)
    OBVIOUS
  <2>3. f \in Calls /\ IsRoot(f) /\ FrameOK(f) /\ f.at = at
    BY <2>2 DEF Frame, Calls, Frames, IsRoot, FrameOK, None
  <2>4. PICK t : t = stack' /\ t = <<f>>
    BY <2>1, <2>2
  <2>5. /\ Well(t) /\ t # <<>> /\ t[1] = f
        /\ Attended(t) = {} /\ Served(t) = {} /\ Waited(t) = {}
    BY <2>3, <2>4, ShapeRoot DEF Well
  <2>6. IsRoot(s[1])
    BY <1>1, <1>2, <1>3 DEF Top, FrameOK, IsRoot
  <2>7. Attended(s) = {} /\ Served(s) = {}
    BY <1>2, <2>6, RootAlone
  <2>8. line' \in BOOLEAN
    BY <1>3 DEF MainPrompt, TypeOK
  <2> QED
    BY <1>1, <1>3, <2>3, <2>4, <2>5, <2>7, <2>8 DEF Going, SameDoors, Silent
<1>4. ASSUME Asks(s[1]), Answer(Tail(stack), pids, proc), line' = line
      PROVE  /\ Going(stack') /\ SameDoors(stack, stack') /\ Replied
             /\ line' \in BOOLEAN
  <2>1. PICK c : c = Tail(s)
    OBVIOUS
  <2>2. ~IsRoot(s[1])
    BY <1>4 DEF IsRoot, Asks
  <2>3. Ended(s, c)
    BY <1>2, <2>1, <2>2, ShapePop
  <2>4. /\ c \in Seq(Calls) /\ Shape(c) /\ c # <<>> /\ c[1].at = "loop"
        /\ c[1].door = s[1].door /\ Attended(c) = Attended(s)
        /\ Served(c) = Served(s) /\ Waited(c) \subseteq Waited(s) \ {s[1].door}
    BY <1>4, <2>3 DEF Ended, Well, Serves, Asks
  <2>5. Head(c) = c[1]
    BY <2>4, Tops
  <2>6. PICK d : d = s[1].door
    OBVIOUS
  <2>7. d \in Waited(s) /\ d # None
    <3>1. d # None /\ d \in Doors /\ 1 \in DOMAIN s
      BY <1>2, <1>4, <2>6, DoorTypes, Tops DEF FrameOK, Asks
    <3> QED
      BY <1>4, <2>6, <3>1 DEF Waited, Pending
  <2>8. stack' = After(pids, proc, c) /\ ans' = [ans EXCEPT ![d] = proc[d] \in Alive]
    BY <1>1, <1>4, <2>1, <2>4, <2>5, <2>6 DEF Answer
  <2>9. GoneOn(c, stack')
    BY <2>4, <2>6, <2>7, <2>8, AfterCalls
  <2>10. line' \in BOOLEAN
    BY <1>4 DEF TypeOK
  <2>11. Waited(stack') \subseteq Waited(s) \ {d}
    BY <2>4, <2>6, <2>9 DEF GoneOn
  <2> QED
    BY <1>1, <2>4, <2>7, <2>8, <2>9, <2>10, <2>11
       DEF GoneOn, Going, SameDoors, Replied
<1>5. ASSUME s[1].for \in {"ask", "chat"}, UNCHANGED <<ans, line>>,
             stack' = <<[Top EXCEPT !.at = "hot", !.warned = FALSE]>> \o Tail(stack)
      PROVE  /\ Going(stack') /\ SameDoors(stack, stack') /\ Silent
             /\ line' \in BOOLEAN
  <2>1. FrameOK([s[1] EXCEPT !.at = "hot"]) /\ "hot" \in Frames
    BY <1>2, <1>5 DEF FrameOK, Calls, Frames
  <2>2. PICK t : t = stack' /\ t = <<[Head(s) EXCEPT !.at = "hot", !.warned = FALSE]>> \o Tail(s)
    BY <1>1, <1>5 DEF Top
  <2>3. GoneTo(s, t, "hot")
    BY <1>2, <2>1, <2>2, MoveCalls, Zenon
  <2>4. s[1].at \in {"hot", "kill"}
    BY <1>1
  <2>5. /\ Well(t) /\ t # <<>> /\ t[1].at = "hot" /\ Attended(t) = Attended(s)
        /\ Served(t) = Served(s) /\ Waited(t) \subseteq Waited(s)
    BY <2>3, <2>4 DEF GoneTo
  <2>6. line' \in BOOLEAN
    BY <1>5 DEF TypeOK
  <2> QED
    BY <1>1, <1>5, <2>2, <2>5, <2>6 DEF Going, SameDoors, Silent
<1>6. ASSUME s[1].for = "chat", UNCHANGED <<ans, line>>, stack' = Tail(stack)
      PROVE  /\ Going(stack') /\ SameDoors(stack, stack') /\ Silent
             /\ line' \in BOOLEAN
  <2>1. PICK t : t = stack' /\ t = Tail(s)
    BY <1>1, <1>6
  <2>2. ~IsRoot(s[1]) /\ ~Serves(s[1]) /\ AttendedBy(s[1]) = {}
    BY <1>2, <1>6 DEF IsRoot, Serves, AttendedBy, FrameOK
  <2>3. Ended(s, t)
    BY <1>2, <2>1, <2>2, ShapePop
  <2>4. /\ Well(t) /\ t # <<>> /\ t[1].at \notin Leaves /\ Attended(t) = Attended(s)
        /\ Served(t) = Served(s) /\ Waited(t) \subseteq Waited(s)
    BY <2>2, <2>3 DEF Ended
  <2>5. line' \in BOOLEAN
    BY <1>6 DEF TypeOK
  <2> QED
    BY <1>1, <1>6, <2>1, <2>4, <2>5 DEF Going, SameDoors, Silent, Leaves
<1>7. Top = s[1]
  BY <1>1, <1>2 DEF Top
<1> QED
  BY <1>3, <1>4, <1>5, <1>6, <1>7 DEF Returned, Asks

\* A program ends and is waited for, or has connected.
ProcStep ==
  \A d \in Doors : \/ proc'[d] = proc[d]
                   \/ proc[d] = "start" /\ proc'[d] = "run"
                   \/ proc[d] \in Alive /\ proc'[d] = "zombie"
                   \/ proc[d] = "zombie" /\ proc'[d] = "gone"

\* A step in which no door is started, served, answered, killed or left.
Quiet ==
  /\ Well(stack') /\ SameDoors(stack, stack') /\ Silent /\ ProcStep
  /\ UNCHANGED <<pids, doorcnt, node, req, asked, ran, last>>
  /\ At("kill") => pids = <<>> \/ stack' = stack

\* A step in which a door is answered that waited.
Answers ==
  /\ Well(stack') /\ SameDoors(stack, stack') /\ Replied
  /\ UNCHANGED <<pids, doorcnt, node, req, asked, ran, last, proc>>
  /\ At("kill") => pids = <<>>

\* The innermost call, where the node is.
LEMMA Where ==
  ASSUME TypeOK, Shape(stack), NEW where, At(where)
  PROVE  /\ stack \in Seq(Calls) /\ stack # <<>> /\ node = "up"
         /\ Top = stack[1] /\ Head(stack) = stack[1] /\ stack[1].at = where
         /\ stack[1] \in Calls /\ FrameOK(stack[1]) /\ 1 \in DOMAIN stack
<1>1. stack \in Seq(Calls) /\ stack # <<>> /\ node = "up" /\ Head(stack).at = where
  BY DEF TypeOK, At, Top
<1> QED
  BY <1>1, Tops DEF Top

\* Where a stack stays as it is, so do its doors.
LEMMA Stays ==
  ASSUME TypeOK, Shape(stack), stack' = stack, ans' = ans
  PROVE  Well(stack') /\ SameDoors(stack, stack') /\ Silent
  BY DEF TypeOK, Well, SameDoors, Silent

\* Waiting for the processes that have ended is such a step.
LEMMA Reaping ==
  ASSUME TypeOK, proc' = Reaped \/ proc' = proc
  PROVE  ProcStep
  BY DEF TypeOK, Reaped, ProcStep

\* Steps of the programs, of the line and of others.
LEMMA OutsideQuiet ==
  ASSUME TypeOK, Shape(stack), NEW d \in Doors,
         Connect(d) \/ Exit(d) \/ Dies(d) \/ Send \/ ShowOlms \/ HangUp \/ TimeIsUp
  PROVE  Quiet
<1>1. stack' = stack /\ ans' = ans /\ UNCHANGED <<pids, doorcnt, node, req, asked, ran, last>>
  BY DEF Connect, Exit, Dies, Send, ShowOlms, HangUp, TimeIsUp, procvars, uservars, msgvars
<1>2. ProcStep
  BY DEF Connect, Exit, Dies, Send, ShowOlms, HangUp, TimeIsUp, procvars, ProcStep,
         TypeOK, Alive
<1> QED
  BY <1>1, <1>2, Stays DEF Quiet

\* The main menu's loop.
LEMMA MenuQuiet ==
  ASSUME TypeOK, Shape(stack), Prompt \/ CommandDone \/ CallEnds
  PROVE  Quiet
<1>1. PICK where \in {"prompt", "cmd", "bye"} : At(where) /\ (where = "cmd" => Top.door = None)
  BY DEF Prompt, CommandDone, CallEnds
<1>2. /\ stack \in Seq(Calls) /\ stack # <<>> /\ Top = stack[1] /\ stack[1].at = where
      /\ FrameOK(stack[1])
  BY <1>1, Where
<1>3. IsRoot(stack[1])
  BY <1>1, <1>2 DEF IsRoot, FrameOK
<1>4. Attended(stack) = {} /\ Served(stack) = {}
  BY <1>2, <1>3, RootAlone
<1>5. UNCHANGED <<pids, doorcnt, node, req, asked, ran, last, ans, proc>>
  BY DEF Prompt, CommandDone, CallEnds, procvars
<1>6. ASSUME NEW f, f = Hot("main", None) \/ f = Frame("bye", None) \/ f = Frame("prompt", None)
      PROVE  f \in Calls /\ IsRoot(f) /\ FrameOK(f)
  <2>1. None \in Doors \cup {None}
    OBVIOUS
  <2>2. CASE f = Hot("main", None)
    BY <2>1, <2>2 DEF Hot, Calls, Frames, IsRoot, FrameOK
  <2>3. CASE f = Frame("bye", None)
    BY <2>1, <2>3 DEF Frame, Calls, Frames, IsRoot, FrameOK
  <2>4. CASE f = Frame("prompt", None)
    BY <2>1, <2>4 DEF Frame, Calls, Frames, IsRoot, FrameOK
  <2> QED
    BY <1>6, <2>2, <2>3, <2>4
<1>7. CASE stack' = <<>>
  <2>1. PICK t : t = stack' /\ t = <<>>
    BY <1>7
  <2>2. DOMAIN t = {} /\ Len(t) = 0 /\ t \in Seq(Calls)
    BY <2>1
  <2>3. Well(t) /\ Attended(t) = {} /\ Served(t) = {} /\ Waited(t) = {}
    BY <2>2 DEF Well, Shape, Attended, Served, Loops, Waited
  <2> QED
    BY <1>1, <1>2, <1>4, <1>5, <2>1, <2>3 DEF Quiet, SameDoors, Silent, ProcStep, At
<1>8. CASE stack' # <<>>
  <2>1. PICK f : /\ stack' = <<f>>
                 /\ f = Hot("main", None) \/ f = Frame("bye", None) \/ f = Frame("prompt", None)
    BY <1>8 DEF Prompt, CommandDone, CallEnds
  <2>2. f \in Calls /\ IsRoot(f) /\ FrameOK(f)
    BY <1>6, <2>1
  <2>3. PICK t : t = stack' /\ t = <<f>>
    BY <2>1
  <2>4. Well(t) /\ Attended(t) = {} /\ Served(t) = {} /\ Waited(t) = {}
    BY <2>2, <2>3, ShapeRoot DEF Well
  <2> QED
    BY <1>1, <1>2, <1>4, <1>5, <2>3, <2>4 DEF Quiet, SameDoors, Silent, ProcStep, At
<1> QED
  BY <1>7, <1>8

\* A loop in whose round nothing is asked.
LEMMA LoopQuiet ==
  ASSUME TypeOK, Shape(stack), RoundMessage \/ RoundIdle \/ ReadReturns
  PROVE  Quiet
<1>1. PICK where \in {"loop", "read"} : At(where)
  BY DEF RoundMessage, RoundIdle, ReadReturns
<1>2. PICK s \in Seq(Calls) : s = stack
  BY DEF TypeOK
<1>3. /\ s # <<>> /\ Shape(s) /\ Top = s[1] /\ Head(s) = s[1] /\ s[1].at = where
      /\ FrameOK(s[1]) /\ s[1] \in Calls
  BY <1>1, <1>2, Where
<1>4. s[1].door # None
  BY <1>1, <1>3 DEF FrameOK
<1>5. UNCHANGED <<pids, doorcnt, node, req, asked, ran, last, ans>> /\ ProcStep
  BY Reaping DEF RoundMessage, RoundIdle, ReadReturns, procvars
<1>6. ~At("kill")
  BY <1>1, <1>3 DEF At
<1>7. ASSUME NEW p, ProcessMsg(After(pids, p, stack)) PROVE Quiet
  <2>1. PICK c : c = After(pids, p, s)
    OBVIOUS
  <2>2. GoneOn(s, c)
    BY <1>1, <1>3, <1>4, <2>1, AfterCalls
  <2>3. c \in Seq(Calls) /\ c # <<>> /\ Shape(c) /\ c[1].at \notin Leaves /\ ProcessMsg(c)
    BY <1>2, <1>7, <2>1, <2>2 DEF GoneOn, Well, Leaves
  <2>4. Going(stack') /\ SameDoors(c, stack') /\ Waited(stack') = Waited(c)
    BY <2>3, ProcessMsgCalls
  <2> QED
    BY <1>2, <1>5, <1>6, <2>2, <2>4 DEF Quiet, Going, SameDoors, Silent, GoneOn
<1>8. CASE RoundIdle
  <2>1. PICK t : t = stack' /\ t = <<[Head(s) EXCEPT !.at = "end"]>> \o Tail(s)
    BY <1>2, <1>8 DEF RoundIdle, Become, Top
  <2>2. "end" \in Frames /\ FrameOK([s[1] EXCEPT !.at = "end"])
    BY <1>1, <1>3 DEF Frames, FrameOK, Calls
  <2>3. GoneTo(s, t, "end")
    BY <1>3, <2>1, <2>2, MoveCalls, Zenon
  <2>4. Well(t) /\ Attended(t) = Attended(s) /\ Served(t) = Served(s) /\ Waited(t) \subseteq Waited(s)
    BY <1>1, <1>3, <2>3 DEF GoneTo
  <2> QED
    BY <1>2, <1>5, <1>6, <2>1, <2>4 DEF Quiet, SameDoors, Silent
<1> QED
  BY <1>7, <1>8 DEF RoundMessage, ReadReturns

\* The wait for a key: a warning, the killing of the doors, a message, or its result.
LEMMA HotSteps ==
  ASSUME TypeOK, Shape(stack),
         \/ IdleClock \/ HotMessage \/ Dropped \/ Interrupt
         \/ \E k \in {"enter", "char", "esc"} : Key(k)
  PROVE  Quiet \/ Answers
<1>1. PICK where \in {"hot", "kill", "loop"} :
         /\ At(where)
         /\ where = "kill" => Dropped
         /\ where = "loop" => Interrupt
  BY DEF IdleClock, HotMessage, Dropped, Interrupt, Key
<1>2. PICK s \in Seq(Calls) : s = stack
  BY DEF TypeOK
<1>3. /\ s # <<>> /\ Shape(s) /\ Top = s[1] /\ Head(s) = s[1] /\ s[1].at = where
      /\ FrameOK(s[1]) /\ s[1] \in Calls
  BY <1>1, <1>2, Where
<1>4. UNCHANGED <<pids, doorcnt, node, req, asked, ran, last>>
  BY DEF IdleClock, HotMessage, Dropped, Interrupt, Key, procvars
<1>5. At("kill") => pids = <<>>
  BY <1>1, <1>3 DEF At, Dropped
<1>6. ASSUME NEW key, NEW has \in BOOLEAN, where # "loop", Returned(key, has), proc' = proc
      PROVE  Quiet \/ Answers
  <2>1. Going(stack') /\ SameDoors(stack, stack') /\ (Silent \/ Replied)
    BY <1>1, <1>2, <1>3, <1>6, ReturnedCalls
  <2> QED
    BY <1>4, <1>5, <1>6, <2>1 DEF Quiet, Answers, Going, ProcStep
<1>7. ASSUME NEW at \in {"kill", "read"}, where = IF at = "kill" THEN "hot" ELSE "loop",
             stack' = <<[Top EXCEPT !.at = at]>> \o Tail(stack), ans' = ans, ProcStep
      PROVE  Quiet
  <2>1. PICK t : t = stack' /\ t = <<[Head(s) EXCEPT !.at = at]>> \o Tail(s)
    BY <1>2, <1>3, <1>7
  <2>2. at \in Frames /\ FrameOK([s[1] EXCEPT !.at = at])
    BY <1>3, <1>7 DEF Frames, FrameOK, Calls
  <2>3. GoneTo(s, t, at)
    BY <1>3, <2>1, <2>2, MoveCalls, Zenon
  <2>4. Well(t) /\ Attended(t) = Attended(s) /\ Served(t) = Served(s) /\ Waited(t) \subseteq Waited(s)
    BY <1>1, <1>3, <1>7, <2>3 DEF GoneTo
  <2> QED
    BY <1>2, <1>4, <1>5, <1>7, <2>1, <2>4 DEF Quiet, SameDoors, Silent
<1>8. CASE IdleClock
  <2>1. proc' = proc /\ ans' = ans /\ ProcStep /\ where = "hot"
    BY <1>1, <1>8, <1>3 DEF IdleClock, procvars, ProcStep, At, Dropped, Interrupt
  <2>2. CASE stack' = Killing
    BY <1>7, <2>1, <2>2 DEF Killing
  <2>3. CASE stack' = <<[Top EXCEPT !.warned = TRUE]>> \o Tail(stack)
    <3>1. PICK f : f = [s[1] EXCEPT !.warned = TRUE]
      OBVIOUS
    <3>2. f \in Calls /\ f.at = s[1].at /\ f.for = s[1].for /\ f.door = s[1].door
      BY <1>3, <3>1 DEF Calls
    <3>3. FrameOK(f) /\ (Pending(f) <=> Pending(s[1]))
      BY <1>3, <3>2 DEF FrameOK, Pending, Asks
    <3>4. PICK t : t = stack' /\ t = <<f>> \o Tail(s)
      BY <1>2, <1>3, <2>3, <3>1
    <3>5. Renewed(s, t, f)
      BY <1>3, <3>2, <3>3, <3>4, ShapeReplace
    <3> QED
      BY <1>2, <1>4, <1>5, <2>1, <3>2, <3>3, <3>4, <3>5 DEF Quiet, SameDoors, Silent, Renewed
  <2> QED
    BY <1>8, <2>2, <2>3 DEF IdleClock
<1>9. CASE HotMessage
  <2>1. proc' = proc /\ ans' = ans /\ ProcStep /\ where = "hot"
    BY <1>1, <1>9, <1>3, <1>2 DEF HotMessage, procvars, ProcStep, At
  <2>2. s[1].at \notin Leaves /\ ProcessMsg(s)
    BY <1>2, <1>3, <1>9, <2>1 DEF HotMessage, Leaves
  <2>3. Going(stack') /\ SameDoors(s, stack') /\ Waited(stack') = Waited(s)
    BY <1>3, <2>2, ProcessMsgCalls
  <2> QED
    BY <1>2, <1>4, <1>5, <2>1, <2>3 DEF Quiet, Going, Silent
<1>10. CASE Dropped
  BY <1>1, <1>3, <1>2, <1>6, <1>10 DEF Dropped, At
<1>11. CASE Interrupt
  <2>1. CASE At("hot") /\ Returned("none", FALSE) /\ UNCHANGED proc
    BY <1>2, <1>3, <1>6, <2>1 DEF At
  <2>2. CASE At("loop") /\ stack' = Become("read") /\ proc' = Reaped /\ UNCHANGED <<ans, line>>
    <3>1. where = "loop" /\ ProcStep
      BY <1>2, <1>3, <2>2, Reaping DEF At
    <3> QED
      BY <1>7, <2>2, <3>1 DEF Become
  <2> QED
    BY <1>11, <2>1, <2>2 DEF Interrupt
<1>12. ASSUME NEW k, Key(k) PROVE Quiet \/ Answers
  <2>1. proc' = proc /\ ProcStep /\ where = "hot"
    BY <1>2, <1>3, <1>12 DEF Key, ProcStep, At
  <2>2. CASE Returned(k, TRUE)
    BY <1>6, <2>1, <2>2
  <2>3. CASE stack' = Killing /\ UNCHANGED <<ans, line>>
    BY <1>7, <2>1, <2>3 DEF Killing
  <2> QED
    BY <1>12, <2>2, <2>3 DEF Key
<1> QED
  BY <1>8, <1>9, <1>10, <1>11, <1>12

\* The answer to a command.
LEMMA CmdAnswers ==
  ASSUME TypeOK, Shape(stack), CmdDone
  PROVE  Answers
<1>1. PICK s \in Seq(Calls) : s = stack
  BY DEF TypeOK
<1>2. /\ s # <<>> /\ Shape(s) /\ Top = s[1] /\ Head(s) = s[1] /\ s[1].at = "cmd"
      /\ s[1] \in Calls /\ 1 \in DOMAIN s /\ s[1].door # None
  BY <1>1, Where DEF CmdDone
<1>3. PICK d : d = s[1].door
  OBVIOUS
<1>4. d \in Doors /\ d \in Waited(s)
  <2>1. d \in Doors
    BY <1>2, <1>3, DoorTypes
  <2> QED
    BY <1>2, <1>3, <2>1 DEF Waited, Pending
<1>5. stack' = After(pids, proc, s) /\ ans' = [ans EXCEPT ![d] = proc[d] \in Alive]
  BY <1>1, <1>2, <1>3 DEF CmdDone, Answer
<1>6. GoneOn(s, stack')
  BY <1>2, <1>5, AfterCalls
<1>7. UNCHANGED <<pids, doorcnt, node, req, asked, ran, last, proc>> /\ ~At("kill")
  BY <1>1, <1>2 DEF CmdDone, At
<1> QED
  BY <1>1, <1>3, <1>4, <1>5, <1>6, <1>7 DEF Answers, GoneOn, SameDoors, Replied

\* Calls of a kind that makes no others serve no loop.
LEMMA Left ==
  ASSUME TypeOK, Shape(stack), NEW where \in {"dos", "accept", "end"}, At(where),
         stack' = Tail(stack)
  PROVE  /\ Ended(stack, stack') /\ Serves(stack[1]) /\ stack[1].door \in Doors
         /\ stack[1].at = where /\ Top = stack[1] /\ node = "up"
<1>1. /\ stack \in Seq(Calls) /\ stack # <<>> /\ node = "up"
      /\ Top = stack[1] /\ stack[1].at = where
      /\ stack[1] \in Calls /\ FrameOK(stack[1])
  BY Where
<1>2. PICK s, t : s \in Seq(Calls) /\ s = stack /\ t = stack' /\ t = Tail(s)
  BY <1>1
<1>3. Serves(s[1]) /\ ~IsRoot(s[1]) /\ s[1].door \in Doors
  BY <1>1, <1>2, DoorTypes DEF FrameOK, Serves, IsRoot
<1>4. Ended(s, t)
  BY <1>1, <1>2, <1>3, ShapePop
<1> QED
  BY <1>1, <1>2, <1>3, <1>4

\* A door's program has connected.
LEMMA AcceptCalls ==
  ASSUME TypeOK, Shape(stack), Accept
  PROVE  /\ GoneTo(stack, stack', "loop") /\ Serves(stack[1]) /\ stack[1].door \in Doors
         /\ stack[1].at = "accept" /\ Top = stack[1] /\ node = "up"
<1>1. /\ stack \in Seq(Calls) /\ stack # <<>> /\ node = "up" /\ Head(stack) = stack[1]
      /\ Top = stack[1] /\ stack[1].at = "accept"
      /\ stack[1] \in Calls /\ FrameOK(stack[1])
  BY Where DEF Accept
<1>2. PICK s, t : /\ s \in Seq(Calls) /\ s = stack /\ t = stack'
                  /\ t = <<[Head(s) EXCEPT !.at = "loop"]>> \o Tail(s)
  BY <1>1 DEF Accept, Become
<1>3. /\ Serves(s[1]) /\ s[1].door \in Doors
      /\ "loop" \in Frames /\ FrameOK([s[1] EXCEPT !.at = "loop"])
  BY <1>1, <1>2, DoorTypes DEF FrameOK, Serves, Frames, Calls
<1>4. GoneTo(s, t, "loop")
  BY <1>1, <1>2, <1>3, MoveCalls, Zenon
<1> QED
  BY <1>1, <1>2, <1>3, <1>4

-----------------------------------------------------------------------------
(* Programs are numbered as they start.                                    *)

Numbered ==
  /\ \A d, e \in Doors : proc[d] # "idle" /\ e < d => proc[e] # "idle"
  /\ \A d \in Attended(stack) : proc[d] # "idle"

\* The doors are finitely many.
LEMMA DoorsFinite == /\ Doors = 1 .. Len(MaxAsk) /\ Len(MaxAsk) \in Nat
                     /\ IsFiniteSet(Doors)
<1>1. Doors = 1 .. Len(MaxAsk) /\ Len(MaxAsk) \in Nat
  BY DoorsAssumption DEF Doors
<1>2. IsFiniteSet(1 .. Len(MaxAsk))
  BY <1>1, FS_Interval
<1> QED
  BY <1>1, <1>2

\* As many numbers as there are.
LEMMA Numbers ==
  ASSUME NEW n \in Nat
  PROVE  IsFiniteSet(1 .. n) /\ Cardinality(1 .. n) = n
<1>1. 1 \in Int /\ n \in Int
  OBVIOUS
<1>2. /\ IsFiniteSet(1 .. n)
      /\ Cardinality(1 .. n) = IF 1 > n THEN 0 ELSE n - 1 + 1
  BY <1>1, FS_Interval
<1> QED
  BY <1>2

\* The next program has not been started, and all that have been come before it.
LEMMA NextDoor ==
  ASSUME TypeOK, Numbered, NEW d \in Doors, d = Started + 1
  PROVE  proc[d] = "idle" /\ \A e \in Doors : proc[e] # "idle" <=> e < d
<1> DEFINE S == {e \in Doors : proc[e] # "idle"}
<1>1. IsFiniteSet(S) /\ Cardinality(S) \in Nat /\ d = Cardinality(S) + 1
  <2>1. S \in SUBSET Doors /\ Started = Cardinality(S)
    BY DEF Started
  <2> HIDE DEF S
  <2>2. IsFiniteSet(S)
    BY <2>1, DoorsFinite, FS_Subset
  <2>3. Cardinality(S) \in Nat
    BY <2>2, FS_CardinalityType, Zenon
  <2> QED
    BY <2>1, <2>2, <2>3
<1>2. IsFiniteSet(1 .. d) /\ Cardinality(1 .. d) = d
      /\ IsFiniteSet(1 .. d - 1) /\ Cardinality(1 .. d - 1) = d - 1
  <2>1. d \in Nat /\ d - 1 \in Nat
    BY <1>1
  <2> QED
    BY <2>1, Numbers
<1>3. d \notin S
  <2> SUFFICES ASSUME d \in S PROVE FALSE
    OBVIOUS
  <2>1. 1 .. d \subseteq S
    BY DoorsFinite DEF Numbered
  <2>2. Cardinality(1 .. d) <= Cardinality(S)
    BY <2>1, <1>1, FS_Subset
  <2> QED
    BY <2>2, <1>1, <1>2
<1>4. S \subseteq 1 .. d - 1
  <2> SUFFICES ASSUME NEW e \in S PROVE e \in 1 .. d - 1
    OBVIOUS
  <2>1. e \in Doors /\ e \in Nat \ {0} /\ d \in Nat \ {0}
    BY DoorsFinite
  <2>2. ~(d < e)
    BY <1>3, <2>1 DEF Numbered
  <2>3. e # d
    BY <1>3
  <2> QED
    BY <2>1, <2>2, <2>3
<1>5. S = 1 .. d - 1
  <2>1. Cardinality(S) = Cardinality(1 .. d - 1)
    BY <1>1, <1>2
  <2>2. IsFiniteSet(1 .. d - 1)
    BY <1>2
  <2>3. S \in SUBSET (1 .. d - 1)
    BY <1>4
  <2> HIDE DEF S
  <2> QED
    BY <2>1, <2>2, <2>3, FS_Subset
<1> HIDE DEF S
<1>6. \A e \in Doors : e \in S <=> e < d
  BY <1>5, <1>1, DoorsFinite
<1> QED
  BY <1>3, <1>6 DEF S

\* A door is started by the command under way, or by the logoff.
LEMMA StartCalls ==
  ASSUME TypeOK, Shape(stack), Numbered, NEW d \in Doors, StartDoor(d) \/ StartDosDoor(d)
  PROVE  /\ \E f \in Calls : /\ Called(stack, stack', f) /\ f.at \in {"accept", "dos"}
                             /\ f.for = "main" /\ f.door = d
         /\ proc[d] = "idle" /\ \A e \in Doors : proc[e] # "idle" <=> e < d
         /\ node = "up" /\ ~At("kill")
<1>1. proc[d] = "idle" /\ \A e \in Doors : proc[e] # "idle" <=> e < d
  BY NextDoor DEF StartDoor, StartDosDoor
<1>2. PICK where \in {"cmd", "bye"} : At(where)
  BY DEF StartDoor, StartDosDoor
<1>3. /\ stack \in Seq(Calls) /\ stack # <<>> /\ node = "up" /\ Top = stack[1]
      /\ stack[1].at = where
  BY <1>2, Where
<1>4. PICK at \in {"accept", "dos"} : stack' = <<Frame(at, d)>> \o stack
  BY DEF StartDoor, StartDosDoor
<1>5. PICK f : f = Frame(at, d)
  OBVIOUS
<1>6. f \in Calls /\ f.at = at /\ f.for = "main" /\ f.door = d
  BY <1>5 DEF Frame, Calls, Frames
<1>7. FrameOK(f) /\ ~IsRoot(f) /\ ~Asks(f)
  BY <1>6, DoorTypes DEF FrameOK, IsRoot, Asks
<1>8. \A e \in Attended(stack) : f.door > e
  <2> SUFFICES ASSUME NEW e \in Attended(stack) PROVE d > e
    BY <1>6
  <2>1. e \in Doors /\ proc[e] # "idle"
    BY DEF Attended, Numbered
  <2>2. e < d
    BY <1>1, <2>1
  <2> QED
    BY <2>1, <2>2, DoorTypes
<1>9. PICK s, t : s \in Seq(Calls) /\ s = stack /\ t = stack' /\ t = <<f>> \o s
  BY <1>3, <1>4, <1>5
<1>10. s[1].at \notin Leaves
  BY <1>3, <1>9 DEF Leaves
<1>11. Called(s, t, f)
  BY <1>3, <1>6, <1>7, <1>8, <1>9, <1>10, ShapePush
<1> QED
  BY <1>1, <1>2, <1>3, <1>6, <1>9, <1>11 DEF At

-----------------------------------------------------------------------------
(* The exchange of requests and answers.                                   *)

\* Where an exchange stands: a program not started has had none, no answer is left when a
\* request is made, what was answered was executed, and a door for which the node runs a
\* command or waits for the user waits itself, or is dead.
Exchange ==
  \A d \in Doors :
    /\ proc[d] = "idle" => asked[d] = 0 /\ ran[d] = 0 /\ ~ans[d] /\ req[d] = "none"
    /\ req[d] # "none" => ~ans[d]
    /\ ans[d] => last[d] \in {"show", "key", "ask", "cmd"}
    /\ d \in Waited(stack) =>
         /\ req[d] = "none" /\ last[d] \in {"key", "ask", "cmd"}
         /\ d \in Living => proc[d] \in {"wait", "closing"} /\ ~ans[d]

\* The calls when the loop has got a request that is not answered at once.
Given(s, t, r) ==
  /\ Well(t) /\ t # <<>> /\ SameDoors(s, t)
  /\ Waited(t) \subseteq Waited(s) \cup {s[1].door}
  /\ s[1].door \in Waited(t) => r \in {"key", "ask", "cmd"}

\* A request for a key or a prompt waits for the user, one for a command runs it, and the
\* last one ends the loop.
LEMMA GivenCalls ==
  ASSUME NEW s \in Seq(Calls), s # <<>>, Shape(s), s[1].at = "loop", NEW r, NEW t,
         \/ r \in {"key", "ask"} /\ t = <<Hot(r, s[1].door)>> \o s
         \/ r = "cmd" /\ t = <<[Head(s) EXCEPT !.at = "cmd"]>> \o Tail(s)
         \/ t = <<[Head(s) EXCEPT !.at = "end"]>> \o Tail(s)
  PROVE  Given(s, t, r)
<1>1. /\ Head(s) = s[1] /\ s[1] \in Calls /\ FrameOK(s[1])
  BY Tops
<1>2. s[1].door \in Doors /\ Serves(s[1]) /\ ~Pending(s[1])
  BY <1>1, DoorTypes DEF FrameOK, Serves, Pending, Asks
<1>3. CASE r \in {"key", "ask"} /\ t = <<Hot(r, s[1].door)>> \o s
  <2>1. PICK f : f = Hot(r, s[1].door)
    OBVIOUS
  <2>2. f \in Calls /\ f.at = "hot" /\ f.for = r /\ f.door = s[1].door
    BY <1>2, <1>3, <2>1 DEF Hot, Calls, Frames
  <2>3. /\ FrameOK(f) /\ ~IsRoot(f) /\ ~Serves(f)
        /\ s[1].at \notin Leaves
    BY <1>1, <1>2, <1>3, <2>2, DoorTypes DEF FrameOK, IsRoot, Serves, Leaves
  <2>4. t = <<f>> \o s
    BY <1>3, <2>1
  <2>5. Called(s, t, f)
    BY <2>2, <2>3, <2>4, ShapePush
  <2>6. s[1].door \in Attended(s)
    BY <1>1, <1>2, Tops DEF Attended
  <2>7. AttendedBy(f) \subseteq Attended(s) /\ ServedBy(f) = {} /\ WaitedBy(f) \subseteq {s[1].door}
    BY <2>2, <2>3, <2>6 DEF AttendedBy, ServedBy, WaitedBy
  <2> QED
    BY <1>3, <2>5, <2>7 DEF Called, Given, SameDoors
<1>4. ASSUME NEW at \in {"cmd", "end"}, t = <<[Head(s) EXCEPT !.at = at]>> \o Tail(s)
      PROVE  /\ Well(t) /\ t # <<>> /\ SameDoors(s, t)
             /\ Waited(t) \subseteq Waited(s) \cup {s[1].door}
             /\ at = "end" => Waited(t) \subseteq Waited(s)
  <2>1. at \in Frames /\ FrameOK([s[1] EXCEPT !.at = at])
    BY <1>1 DEF Frames, FrameOK, Calls
  <2>2. GoneTo(s, t, at)
    BY <1>4, <2>1, MoveCalls, Zenon
  <2> QED
    BY <2>2 DEF GoneTo, SameDoors
<1>5. s[1].door \notin Waited(s)
  BY <1>2, NotWaited
<1>6. CASE r = "cmd" /\ t = <<[Head(s) EXCEPT !.at = "cmd"]>> \o Tail(s)
  BY <1>4, <1>6 DEF Given
<1>7. CASE t = <<[Head(s) EXCEPT !.at = "end"]>> \o Tail(s)
  BY <1>4, <1>5, <1>7 DEF Given
<1> QED
  BY <1>3, <1>6, <1>7

\* What a round with a request does, or one that finds the socket closed, for the door d
\* of the innermost loop.
Round(d) ==
  /\ Well(stack') /\ stack' # <<>> /\ SameDoors(stack, stack')
  /\ d \notin Waited(stack) /\ Waited(stack') \subseteq Waited(stack) \cup {d}
  /\ proc' = Reaped /\ UNCHANGED <<pids, doorcnt, node, asked>>
  /\ \/ /\ req[d] # "none" /\ req' = [req EXCEPT ![d] = "none"]
        /\ ran' = [ran EXCEPT ![d] = @ + 1] /\ last' = [last EXCEPT ![d] = req[d]]
        /\ \/ ans' = ans /\ (d \in Waited(stack') => req[d] \in {"key", "ask", "cmd"})
           \/ /\ req[d] # "close" /\ d \notin Waited(stack')
              /\ ans' = [ans EXCEPT ![d] = Reaped[d] \in Alive]
     \/ /\ d \notin Living /\ req[d] = "none" /\ UNCHANGED <<req, last>>
        /\ \/ /\ ans[d] /\ ans' = [ans EXCEPT ![d] = FALSE]
              /\ ran' = [ran EXCEPT ![d] = @ + 1]
              /\ d \in Waited(stack') => last[d] \in {"key", "ask", "cmd"}
           \/ UNCHANGED <<ans, ran>> /\ d \notin Waited(stack')

LEMMA RoundSteps ==
  ASSUME TypeOK, Shape(stack), Exchange, RoundRequest \/ RoundClosed
  PROVE  ~At("kill") /\ \E d \in Doors : Round(d)
<1>1. At("loop")
  BY DEF RoundRequest, RoundClosed
<1>2. PICK s \in Seq(Calls) : s = stack
  BY DEF TypeOK
<1>3. /\ s # <<>> /\ Shape(s) /\ Top = s[1] /\ Head(s) = s[1] /\ s[1].at = "loop"
      /\ s[1] \in Calls /\ FrameOK(s[1])
  BY <1>1, <1>2, Where
<1>4. PICK d : d = s[1].door
  OBVIOUS
<1>5. d \in Doors /\ Serves(s[1]) /\ d # None /\ d \notin Waited(s)
  BY <1>3, <1>4, DoorTypes, NotWaited DEF FrameOK, Serves, Pending, Asks
<1>6. ~At("kill")
  BY <1>2, <1>3 DEF At
<1>7. PICK t : t = stack'
  OBVIOUS
<1>8. ASSUME NEW r, NEW p,
             t = After(pids, p, s)
      PROVE  GoneOn(s, t)
  BY <1>3, <1>4, <1>5, <1>8, AfterCalls
<1>9. ASSUME NEW r,
             \/ r \in {"key", "ask"} /\ t = <<Hot(r, s[1].door)>> \o s
             \/ r = "cmd" /\ t = <<[Head(s) EXCEPT !.at = "cmd"]>> \o Tail(s)
             \/ t = <<[Head(s) EXCEPT !.at = "end"]>> \o Tail(s)
      PROVE  Given(s, t, r)
  BY <1>3, <1>9, GivenCalls
<1>10. CASE RoundRequest
  <2>1. /\ req[d] # "none" /\ proc' = Reaped /\ req' = [req EXCEPT ![d] = "none"]
        /\ Execute(d, req[d]) /\ UNCHANGED <<pids, doorcnt, node, asked>>
    BY <1>3, <1>4, <1>10 DEF RoundRequest
  <2>2. ran' = [ran EXCEPT ![d] = @ + 1] /\ last' = [last EXCEPT ![d] = req[d]]
    BY <2>1 DEF Execute
  <2>3. req[d] \in {"show", "key", "ask", "cmd", "close"}
    BY <1>5, <2>1, DoorsAssumption DEF TypeOK
  <2>4. CASE AtOnce(req[d])
    <3>1. t = After(pids, Reaped, s) /\ ans' = [ans EXCEPT ![d] = Reaped[d] \in Alive]
      BY <1>2, <1>3, <1>4, <1>7, <2>1, <2>4 DEF Execute, Answer
    <3>2. GoneOn(s, t)
      BY <1>8, <3>1
    <3>3. req[d] # "close"
      BY <2>4 DEF AtOnce
    <3>4. Round(d)
      BY <1>2, <1>4, <1>5, <1>7, <2>1, <2>2, <3>1, <3>2, <3>3 DEF Round, GoneOn, SameDoors
    <3> QED
      BY <1>5, <1>6, <3>4
  <2>5. CASE ~AtOnce(req[d])
    <3>1. /\ ans' = ans
          /\ t = IF req[d] = "close" THEN Become("end")
                 ELSE IF req[d] = "cmd" THEN Become("cmd") ELSE <<Hot(req[d], d)>> \o s
      BY <1>2, <1>7, <2>1, <2>5 DEF Execute
    <3>2. \/ req[d] \in {"key", "ask"} /\ t = <<Hot(req[d], s[1].door)>> \o s
          \/ req[d] = "cmd" /\ t = <<[Head(s) EXCEPT !.at = "cmd"]>> \o Tail(s)
          \/ t = <<[Head(s) EXCEPT !.at = "end"]>> \o Tail(s)
      BY <1>2, <1>3, <1>4, <2>3, <2>5, <3>1 DEF Become, AtOnce
    <3>3. Given(s, t, req[d])
      BY <1>9, <3>2
    <3>4. Round(d)
      BY <1>2, <1>4, <1>5, <1>7, <2>1, <2>2, <3>1, <3>3 DEF Round, Given, SameDoors
    <3> QED
      BY <1>5, <1>6, <3>4
  <2> QED
    BY <2>4, <2>5
<1>11. CASE RoundClosed
  <2>1. /\ req[d] = "none" /\ d \notin Living /\ proc' = Reaped
        /\ UNCHANGED <<pids, doorcnt, node, asked, req, last>>
        /\ IF ans[d]
             THEN /\ ans' = [ans EXCEPT ![d] = FALSE]
                  /\ ran' = [ran EXCEPT ![d] = @ + 1]
                  /\ t = IF AtOnce(last[d]) THEN After(pids, Reaped, s)
                         ELSE IF last[d] = "cmd" THEN Become("cmd")
                         ELSE <<Hot(last[d], d)>> \o s
             ELSE t = Become("end") /\ UNCHANGED <<ans, ran>>
    BY <1>2, <1>3, <1>4, <1>7, <1>11 DEF RoundClosed
  <2>2. ans[d] => last[d] \in {"show", "key", "ask", "cmd"}
    BY <1>5 DEF Exchange
  <2>3. CASE ans[d] /\ AtOnce(last[d])
    <3>1. GoneOn(s, t)
      BY <1>8, <2>1, <2>3
    <3>2. Round(d)
      BY <1>2, <1>4, <1>5, <1>7, <2>1, <2>3, <3>1 DEF Round, GoneOn, SameDoors
    <3> QED
      BY <1>5, <1>6, <3>2
  <2>4. CASE ans[d] /\ ~AtOnce(last[d])
    <3>1. \/ last[d] \in {"key", "ask"} /\ t = <<Hot(last[d], s[1].door)>> \o s
          \/ last[d] = "cmd" /\ t = <<[Head(s) EXCEPT !.at = "cmd"]>> \o Tail(s)
      BY <1>2, <1>3, <1>4, <2>1, <2>2, <2>4 DEF Become, AtOnce
    <3>2. Given(s, t, last[d])
      BY <1>9, <3>1
    <3>3. Round(d)
      BY <1>2, <1>4, <1>5, <1>7, <2>1, <2>4, <3>2 DEF Round, Given, SameDoors
    <3> QED
      BY <1>5, <1>6, <3>3
  <2>5. CASE ~ans[d]
    <3>1. t = <<[Head(s) EXCEPT !.at = "end"]>> \o Tail(s)
      BY <1>2, <1>3, <2>1, <2>5 DEF Become
    <3>2. Given(s, t, "close")
      BY <1>9, <3>1
    <3>3. Round(d)
      BY <1>2, <1>4, <1>5, <1>7, <2>1, <2>5, <3>2 DEF Round, Given, SameDoors
    <3> QED
      BY <1>5, <1>6, <3>3
  <2> QED
    BY <2>3, <2>4, <2>5
<1> QED
  BY <1>10, <1>11

\* The steps whose effect on the calls is known.
LEMMA Kinds ==
  ASSUME TypeOK, Shape(stack), Exchange, [Next]_vars
  PROVE  \/ Quiet \/ Answers
         \/ ~At("kill") /\ \E d \in Doors : Round(d)
         \/ \E d \in Doors : TakeAnswer(d) \/ \E r \in Requests : Ask(d, r)
         \/ \E d \in Doors : StartDoor(d) \/ StartDosDoor(d)
         \/ Accept \/ AcceptFails \/ DosDoorEnds \/ LoopEnds \/ KillChild
<1>1. CASE UNCHANGED vars
  <2>1. stack' = stack /\ ans' = ans
    BY <1>1 DEF vars, procvars
  <2>2. Well(stack') /\ SameDoors(stack, stack') /\ Silent
    BY <2>1, Stays
  <2>3. UNCHANGED <<pids, doorcnt, node, req, asked, ran, last, proc>>
    BY <1>1 DEF vars, procvars
  <2> QED
    BY <2>1, <2>2, <2>3 DEF Quiet, ProcStep
<1>2. CASE \E d \in Doors : Connect(d) \/ Exit(d) \/ Dies(d)
  BY <1>2, OutsideQuiet
<1>3. CASE Send \/ ShowOlms \/ HangUp \/ TimeIsUp
  <2>1. stack' = stack /\ ans' = ans /\ UNCHANGED <<pids, doorcnt, node, req, asked, ran, last, proc>>
    BY <1>3 DEF Send, ShowOlms, HangUp, TimeIsUp, procvars
  <2>2. Well(stack') /\ SameDoors(stack, stack') /\ Silent
    BY <2>1, Stays
  <2> QED
    BY <2>1, <2>2 DEF Quiet, ProcStep
<1>4. CASE Prompt \/ CommandDone \/ CallEnds
  BY <1>4, MenuQuiet
<1>5. CASE RoundMessage \/ RoundIdle \/ ReadReturns
  BY <1>5, LoopQuiet
<1>6. CASE \/ IdleClock \/ HotMessage \/ Dropped \/ Interrupt
           \/ \E k \in {"enter", "char", "esc"} : Key(k)
  BY <1>6, HotSteps
<1>7. CASE CmdDone
  BY <1>7, CmdAnswers
<1>8. CASE RoundRequest \/ RoundClosed
  BY <1>8, RoundSteps
<1> QED
  BY <1>1, <1>2, <1>3, <1>4, <1>5, <1>6, <1>7, <1>8 DEF Next, NodeSteps

\* In every step the calls stay well nested.
LEMMA CallsWell ==
  ASSUME TypeOK, Shape(stack), Numbered, Exchange, [Next]_vars
  PROVE  Well(stack')
<1>1. CASE Quiet \/ Answers \/ \E d \in Doors : Round(d)
  BY <1>1 DEF Quiet, Answers, Round
<1>2. CASE \E d \in Doors : StartDoor(d) \/ StartDosDoor(d)
  BY <1>2, StartCalls DEF Called
<1>3. CASE Accept
  BY <1>3, AcceptCalls DEF GoneTo
<1>4. CASE AcceptFails \/ DosDoorEnds \/ LoopEnds
  <2>1. PICK where \in {"dos", "accept", "end"} : At(where) /\ stack' = Tail(stack)
    BY <1>4 DEF AcceptFails, DosDoorEnds, LoopEnds
  <2>2. Ended(stack, stack')
    BY <2>1, Left
  <2> QED
    BY <2>2 DEF Ended
<1>5. CASE KillChild \/ \E d \in Doors : TakeAnswer(d) \/ \E r \in Requests : Ask(d, r)
  <2>1. stack' = stack
    BY <1>5 DEF KillChild, TakeAnswer, Ask
  <2> QED
    BY <2>1 DEF Well, TypeOK
<1> QED
  BY <1>1, <1>2, <1>3, <1>4, <1>5, Kinds

\* A program ages: it connects, ends or is killed, and does not start.
Aged ==
  \A d \in Doors : \/ proc'[d] = proc[d]
                   \/ proc[d] = "start" /\ proc'[d] = "run"
                   \/ proc[d] # "idle" /\ proc'[d] \in {"zombie", "gone"}

\* The doors served or waiting are attended to.
LEMMA ServedAttended ==
  ASSUME NEW s
  PROVE  Served(s) \subseteq Attended(s) /\ Waited(s) \subseteq Attended(s)
  BY DEF Served, Loops, Attended, Waited

\* The latest door of the list.
LEMMA Latest ==
  ASSUME TypeOK, pids # <<>>
  PROVE  /\ Head(pids) = pids[1] /\ 1 \in DOMAIN pids /\ Head(pids) \in Doors
         /\ Head(pids) \in Range(pids) /\ Shift(pids) = Tail(pids)
<1>1. pids \in Seq(Doors)
  BY DEF TypeOK
<1>2. Head(pids) = pids[1] /\ 1 \in DOMAIN pids /\ pids[1] \in Doors
  BY <1>1
<1> QED
  BY <1>2 DEF Range, Shift

\* A loop ends, a program does not connect, ends or is killed: no request is made or
\* answered, and no door begins to wait for the node.
Endings ==
  /\ Aged /\ UNCHANGED <<req, ans, asked, ran, last>>
  /\ Waited(stack') \subseteq Waited(stack)

LEMMA EndSteps ==
  ASSUME TypeOK, Shape(stack), Numbered, Nesting,
         AcceptFails \/ DosDoorEnds \/ LoopEnds \/ KillChild
  PROVE  Endings
<1>1. \A d \in Attended(stack) : proc[d] # "idle"
  BY DEF Numbered
<1>2. pids # <<>> => Head(pids) \in Attended(stack)
  BY Latest, ServedAttended DEF Nesting
<1>3. UNCHANGED <<req, ans, asked, ran, last>>
  BY DEF AcceptFails, DosDoorEnds, LoopEnds, KillChild
<1>4. CASE AcceptFails \/ DosDoorEnds \/ LoopEnds
  <2>1. PICK where \in {"dos", "accept", "end"} : At(where) /\ stack' = Tail(stack)
    BY <1>4 DEF AcceptFails, DosDoorEnds, LoopEnds
  <2>2. Ended(stack, stack') /\ stack[1].door \in Doors /\ Top = stack[1]
    BY <2>1, Left
  <2>3. stack[1].door \in Attended(stack)
    BY <2>1, <2>2, Where DEF Attended
  <2>4. Aged
    <3>1. \/ proc' = [proc EXCEPT ![Top.door] = "gone"]
          \/ proc' = Reaped
          \/ pids # <<>> /\ proc' = [proc EXCEPT ![Head(pids)] = "gone"]
      BY <1>4 DEF AcceptFails, DosDoorEnds, LoopEnds
    <3> QED
      BY <1>1, <1>2, <2>2, <2>3, <3>1 DEF Aged, Reaped, TypeOK
  <2> QED
    BY <1>3, <2>2, <2>4 DEF Endings, Ended
<1>5. CASE KillChild
  BY <1>1, <1>2, <1>3, <1>5 DEF KillChild, Victim, Aged, TypeOK, Endings
<1> QED
  BY <1>4, <1>5

\* The exchange goes on as it should, whatever the step.
LEMMA ExchangeStep ==
  ASSUME TypeOK, Shape(stack), Numbered, Exchange, Paired, Nesting, [Next]_vars
  PROVE  Exchange' /\ Paired'
<1> USE DEF TypeOK, Exchange, Paired, Living, Alive
<1>1. CASE Quiet \/ Endings
  <2>1. Aged /\ Waited(stack') \subseteq Waited(stack) /\ UNCHANGED <<req, ans, asked, ran, last>>
    BY <1>1 DEF Quiet, Endings, Silent, ProcStep, Aged
  <2> QED
    BY <2>1, ZenonT(40) DEF Aged
<1>2. CASE Answers
  <2>1. PICK d \in Waited(stack) : /\ Waited(stack') \subseteq Waited(stack) \ {d}
                                   /\ ans' = [ans EXCEPT ![d] = proc[d] \in Alive]
    BY <1>2 DEF Answers, Replied
  <2>2. UNCHANGED <<req, asked, ran, last, proc>>
    BY <1>2 DEF Answers
  <2>3. d \in Doors
    BY DEF Waited
  <2>4. ans'[d] = (proc[d] \in Alive) /\ \A e \in Doors : e # d => ans'[e] = ans[e]
    BY <2>1, <2>3
  <2>5. /\ req[d] = "none" /\ last[d] \in {"key", "ask", "cmd"}
        /\ d \in Living => proc[d] \in {"wait", "closing"}
    BY <2>3
  <2>6. proc[d] # "idle"
    BY <2>3, ServedAttended DEF Numbered
  <2>7. Paired'
    BY <2>2, <2>3, <2>4, <2>5
  <2>8. Exchange'
    BY <2>1, <2>2, <2>3, <2>4, <2>5, <2>6
  <2> QED
    BY <2>7, <2>8
<1>3. CASE \E d \in Doors : Round(d)
  <2>1. PICK d \in Doors : Round(d)
    BY <1>3
  <2>2. d \notin Waited(stack) /\ Waited(stack') \subseteq Waited(stack) \cup {d}
    BY <2>1 DEF Round
  <2>3. proc' = Reaped /\ asked' = asked
    BY <2>1 DEF Round
  <2>4. CASE req[d] # "none"
    <3>1. /\ req' = [req EXCEPT ![d] = "none"]
          /\ ran' = [ran EXCEPT ![d] = @ + 1] /\ last' = [last EXCEPT ![d] = req[d]]
          /\ \/ ans' = ans /\ (d \in Waited(stack') => req[d] \in {"key", "ask", "cmd"})
             \/ /\ req[d] # "close" /\ d \notin Waited(stack')
                /\ ans' = [ans EXCEPT ![d] = Reaped[d] \in Alive]
      BY <2>1, <2>4 DEF Round
    <3>2. req[d] \in {"show", "key", "ask", "cmd", "close"}
      BY <2>4, DoorsAssumption
    <3>3. \A e \in Doors : /\ proc'[e] \in Alive => proc'[e] = proc[e]
                           /\ Reaped[e] \in Alive => proc[e] \in Alive
                           /\ proc'[e] = "idle" => proc[e] = "idle"
      BY <2>3 DEF Reaped
    <3>4. proc[d] # "idle" /\ ~ans[d]
      BY <2>4
    <3>5. ran[d] \in Nat /\ asked[d] \in Nat
      OBVIOUS
    <3>6. Paired'
      <4>1. ASSUME NEW e \in Doors, e # d
            PROVE  req'[e] = req[e] /\ ran'[e] = ran[e] /\ ans'[e] = ans[e]
        BY <3>1, <4>1
      <4>2. req'[d] = "none" /\ ran'[d] = ran[d] + 1
        BY <3>1
      <4>3. proc'[d] \in Alive => proc[d] \in {"wait", "closing"} /\ ran[d] = asked[d] - 1
        BY <2>4, <3>3
      <4>4. proc'[d] \in Alive => proc'[d] \in {"wait", "closing"} /\ ran'[d] = asked'[d]
        BY <2>3, <3>3, <3>5, <4>2, <4>3
      <4> QED
        BY <2>3, <3>3, <4>1, <4>2, <4>4, SMTT(30)
    <3>7. CASE ans' = ans /\ (d \in Waited(stack') => req[d] \in {"key", "ask", "cmd"})
      BY <2>2, <2>3, <2>4, <3>1, <3>3, <3>4, <3>6, <3>7
    <3>8. CASE /\ req[d] # "close" /\ d \notin Waited(stack')
               /\ ans' = [ans EXCEPT ![d] = Reaped[d] \in Alive]
      BY <2>2, <2>3, <2>4, <3>1, <3>2, <3>3, <3>4, <3>6, <3>8
    <3> QED
      BY <3>1, <3>7, <3>8
  <2>5. CASE req[d] = "none"
    <3>1. /\ d \notin Living /\ UNCHANGED <<req, last>>
          /\ \/ /\ ans[d] /\ ans' = [ans EXCEPT ![d] = FALSE]
                /\ ran' = [ran EXCEPT ![d] = @ + 1]
                /\ d \in Waited(stack') => last[d] \in {"key", "ask", "cmd"}
             \/ UNCHANGED <<ans, ran>> /\ d \notin Waited(stack')
      BY <2>1, <2>5 DEF Round
    <3>2. /\ proc'[d] \notin Alive
          /\ \A e \in Doors : /\ proc'[e] \in Alive => proc'[e] = proc[e]
                              /\ proc'[e] = "idle" => proc[e] = "idle"
      BY <2>3, <3>1 DEF Reaped
    <3>3. Paired'
      BY <2>3, <3>1, <3>2, SMTT(30)
    <3>4. CASE ans' = ans /\ d \notin Waited(stack')
      BY <2>2, <2>3, <2>5, <3>1, <3>2, <3>4, SMTT(30)
    <3>5. CASE /\ ans[d] /\ ans' = [ans EXCEPT ![d] = FALSE]
               /\ ran' = [ran EXCEPT ![d] = @ + 1]
               /\ d \in Waited(stack') => last[d] \in {"key", "ask", "cmd"}
      <4>1. proc'[d] # "idle"
        BY <3>2, <3>5
      <4> QED
        BY <2>2, <2>3, <2>5, <3>1, <3>2, <3>3, <3>5, <4>1
    <3> QED
      BY <3>1, <3>3, <3>4, <3>5
  <2> QED
    BY <2>4, <2>5
<1>4. ASSUME NEW d \in Doors, TakeAnswer(d)
      PROVE  Exchange' /\ Paired'
  BY <1>4 DEF TakeAnswer
<1>5. ASSUME NEW d \in Doors, NEW r \in Requests, Ask(d, r)
      PROVE  Exchange' /\ Paired'
  <2>1. /\ proc[d] = "run" /\ req' = [req EXCEPT ![d] = r] /\ asked' = [asked EXCEPT ![d] = @ + 1]
        /\ \/ proc' = [proc EXCEPT ![d] = "closing"]
           \/ proc' = [proc EXCEPT ![d] = "wait"]
        /\ UNCHANGED <<stack, ans, ran, last>>
    BY <1>5 DEF Ask
  <2>2. r # "none"
    BY DoorsAssumption
  <2>3. ran[d] = asked[d] /\ ~ans[d] /\ req[d] = "none" /\ d \notin Waited(stack)
    BY <2>1
  <2>4. Waited(stack') = Waited(stack)
    BY <2>1
  <2>5. Paired'
    BY <2>1, <2>2, <2>3
  <2>6. Exchange'
    BY <2>1, <2>2, <2>3, <2>4
  <2> QED
    BY <2>5, <2>6
<1>6. ASSUME NEW d \in Doors, StartDoor(d) \/ StartDosDoor(d)
      PROVE  Exchange' /\ Paired'
  <2>1. /\ \/ proc' = [proc EXCEPT ![d] = "start"]
           \/ proc' = [proc EXCEPT ![d] = "run"]
        /\ UNCHANGED <<req, ans, asked, ran, last>>
    BY <1>6 DEF StartDoor, StartDosDoor
  <2>5. proc[d] = "idle"
    BY <1>6, StartCalls
  <2>2. PICK f \in Calls : /\ Called(stack, stack', f) /\ f.at \in {"accept", "dos"}
                           /\ f.for = "main" /\ f.door = d
    BY <1>6, StartCalls
  <2>3. Waited(stack') = Waited(stack)
    BY <2>2 DEF Called, WaitedBy, Pending, Asks
  <2>4. d \notin Waited(stack)
    BY <2>5, ServedAttended DEF Numbered
  <2>6. proc'[d] \in {"start", "run"} /\ \A e \in Doors : e # d => proc'[e] = proc[e]
    BY <2>1
  <2>7. Paired'
    BY <2>1, <2>5, <2>6
  <2>8. Exchange'
    BY <2>1, <2>3, <2>4, <2>5, <2>6
  <2> QED
    BY <2>7, <2>8
<1>7. CASE Accept
  <2>1. Waited(stack') \subseteq Waited(stack)
    BY <1>7, AcceptCalls DEF GoneTo
  <2>2. UNCHANGED <<proc, req, ans, asked, ran, last>>
    BY <1>7 DEF Accept, procvars
  <2> QED
    BY <2>1, <2>2
<1> HIDE DEF TypeOK, Exchange, Paired, Living, Alive
<1> QED
  BY <1>1, <1>2, <1>3, <1>4, <1>5, <1>6, <1>7, Kinds, EndSteps

-----------------------------------------------------------------------------
(* The doors, their loops and their processes.                             *)

\* No program starts, and none is attended to that was not.
Older ==
  /\ Attended(stack') \subseteq Attended(stack)
  /\ \A d \in Doors : /\ proc'[d] = "idle" <=> proc[d] = "idle"
                      /\ proc'[d] \in Alive => proc[d] \in Alive

\* The same doors are attended to and served, and the list stays as it is.
Steady ==
  /\ Older /\ SameDoors(stack, stack') /\ UNCHANGED <<pids, doorcnt, node>>
  /\ At("kill") => pids = <<>> \/ stack' = stack

\* Every step is steady, starts a program, or begins or ends a call for one.
LEMMA Steps ==
  ASSUME TypeOK, Shape(stack), Numbered, Exchange, Nesting, [Next]_vars
  PROVE  \/ Steady
         \/ \E d \in Doors : StartDoor(d) \/ StartDosDoor(d)
         \/ (Accept \/ AcceptFails \/ DosDoorEnds \/ LoopEnds \/ KillChild) /\ Older
<1> USE DEF Alive
<1>1. ASSUME Aged
      PROVE  \A d \in Doors : /\ proc'[d] = "idle" <=> proc[d] = "idle"
                              /\ proc'[d] \in Alive => proc[d] \in Alive
  BY <1>1 DEF Aged
<1>2. CASE Quiet
  <2>1. Aged
    BY <1>2 DEF Quiet, ProcStep, Aged
  <2> QED
    BY <1>1, <1>2, <2>1 DEF Quiet, SameDoors, Steady, Older
<1>3. CASE Answers
  BY <1>3 DEF Answers, SameDoors, Steady, Older
<1>4. CASE ~At("kill") /\ \E d \in Doors : Round(d)
  <2>1. Aged
    BY <1>4, Reaping DEF Round, ProcStep, Aged
  <2> QED
    BY <1>1, <1>4, <2>1 DEF Round, SameDoors, Steady, Older
<1>5. CASE \E d \in Doors : TakeAnswer(d) \/ \E r \in Requests : Ask(d, r)
  <2>1. PICK d \in Doors : TakeAnswer(d) \/ \E r \in Requests : Ask(d, r)
    BY <1>5
  <2>2. /\ UNCHANGED <<stack, pids, doorcnt, node>>
        /\ proc[d] \in {"run", "wait"}
        /\ \E p \in {"run", "wait", "closing"} : proc' = [proc EXCEPT ![d] = p]
    BY <2>1 DEF TakeAnswer, Ask
  <2>3. \A e \in Doors : /\ proc'[e] = "idle" <=> proc[e] = "idle"
                         /\ proc'[e] \in Alive => proc[e] \in Alive
    BY <2>2 DEF TypeOK
  <2> QED
    BY <2>2, <2>3 DEF SameDoors, Steady, Older
<1>6. CASE Accept
  BY <1>6, AcceptCalls DEF Accept, procvars, GoneTo, Older
<1>7. CASE AcceptFails \/ DosDoorEnds \/ LoopEnds \/ KillChild
  <2>1. Aged
    BY <1>7, EndSteps DEF Endings
  <2>2. CASE AcceptFails \/ DosDoorEnds \/ LoopEnds
    <3>1. PICK where \in {"dos", "accept", "end"} : At(where) /\ stack' = Tail(stack)
      BY <2>2 DEF AcceptFails, DosDoorEnds, LoopEnds
    <3>2. Ended(stack, stack')
      BY <3>1, Left
    <3> QED
      BY <1>1, <2>1, <2>2, <3>2 DEF Ended, Older
  <2>3. CASE KillChild
    BY <1>1, <2>1, <2>3 DEF KillChild, Older
  <2> QED
    BY <1>7, <2>2, <2>3
<1> QED
  BY <1>2, <1>3, <1>4, <1>5, <1>6, <1>7, Kinds

\* Programs stay numbered as they start.
LEMMA NumberedStep ==
  ASSUME TypeOK, Shape(stack), Numbered, Exchange, Nesting, [Next]_vars
  PROVE  Numbered'
<1>1. CASE Older
  <2>1. \A d \in Doors : proc'[d] = "idle" <=> proc[d] = "idle"
    BY <1>1 DEF Older
  <2>2. Attended(stack') \subseteq Attended(stack)
    BY <1>1 DEF Older
  <2>3. Attended(stack) \subseteq Doors
    BY DEF Attended
  <2> QED
    BY <2>1, <2>2, <2>3 DEF Numbered
<1>2. ASSUME NEW d \in Doors, StartDoor(d) \/ StartDosDoor(d)
      PROVE  Numbered'
  <2>1. \A e \in Doors : proc[e] # "idle" <=> e < d
    BY <1>2, StartCalls
  <2>2. \A e \in Doors : proc'[e] # "idle" <=> (e < d \/ e = d)
    <3>1. \/ proc' = [proc EXCEPT ![d] = "start"]
          \/ proc' = [proc EXCEPT ![d] = "run"]
      BY <1>2 DEF StartDoor, StartDosDoor
    <3> QED
      BY <2>1, <3>1 DEF TypeOK
  <2>3. Attended(stack') \subseteq Attended(stack) \cup {d}
    <3>1. PICK f \in Calls : Called(stack, stack', f) /\ f.door = d
      BY <1>2, StartCalls
    <3> QED
      BY <3>1 DEF Called, AttendedBy
  <2>4. \A e \in Attended(stack') : proc'[e] # "idle"
    BY <2>1, <2>2, <2>3 DEF Numbered, Attended
  <2>5. \A e, g \in Doors : proc'[e] # "idle" /\ g < e => proc'[g] # "idle"
    BY <2>2, DoorTypes
  <2> QED
    BY <2>4, <2>5 DEF Numbered
<1> QED
  BY <1>1, <1>2, Steps DEF Steady

\* The innermost of the doors served is the latest.
LEMMA InnermostServed ==
  ASSUME TypeOK, Shape(stack), stack # <<>>, Serves(stack[1]), stack[1].door \in Doors,
         NEW e \in Attended(stack), e # stack[1].door
  PROVE  stack[1].door > e
<1>1. PICK s \in Seq(Calls) : s = stack
  BY DEF TypeOK
<1>2. PICK i \in DOMAIN s : s[i].door = e /\ e \in Doors
  BY <1>1 DEF Attended
<1>3. i # 1 /\ i > 1 /\ s[i].door # None
  BY <1>1, <1>2, DoorTypes
<1> QED
  BY <1>1, <1>2, <1>3, Innermost

\* The process a loop that ends kills is that of its door: it is the first of the list, or
\* the list is empty and the door is dead.
LEMMA EndsLatest ==
  ASSUME TypeOK, Shape(stack), Nesting, LoopEnds
  PROVE  /\ pids = <<>> => Top.door \notin Living
         /\ pids # <<>> => Head(pids) = Top.door
<1>1. At("end")
  BY DEF LoopEnds
<1>2. /\ stack \in Seq(Calls) /\ stack # <<>> /\ Top = stack[1] /\ stack[1].at = "end"
      /\ stack[1] \in Calls /\ FrameOK(stack[1]) /\ 1 \in DOMAIN stack /\ ~At("kill")
  BY <1>1, Where DEF At
<1>3. Serves(stack[1]) /\ stack[1].door \in Doors /\ stack[1].door \in Served(stack)
  <2>1. Serves(stack[1]) /\ stack[1].door \in Doors
    BY <1>2, DoorTypes DEF FrameOK, Serves
  <2> QED
    BY <1>2, <2>1 DEF Served, Loops
<1>4. CASE pids = <<>>
  <2>1. Range(pids) = {}
    BY <1>4 DEF Range
  <2> QED
    BY <1>2, <1>3, <1>4, <2>1 DEF Nesting
<1>5. CASE pids # <<>>
  <2>1. /\ Head(pids) = pids[1] /\ 1 \in DOMAIN pids /\ pids[1] \in Range(pids)
        /\ pids[1] \in Doors
    BY <1>5, Latest
  <2>2. pids[1] \in Attended(stack)
    BY <2>1, ServedAttended DEF Nesting
  <2> SUFFICES ASSUME pids[1] # stack[1].door PROVE FALSE
    BY <1>2, <1>5, <2>1
  <2>3. stack[1].door > pids[1]
    BY <1>2, <1>3, <2>2, InnermostServed
  <2>4. stack[1].door \in Range(pids)
    BY <1>2, <1>3, <2>1, <2>3 DEF Nesting
  <2>5. PICK p \in Seq(Doors), d \in Doors : p = pids /\ d = stack[1].door
    BY <1>3 DEF TypeOK
  <2>6. PICK j \in DOMAIN p : p[j] = d
    BY <2>4, <2>5 DEF Range
  <2>7. p[1] # d /\ 1 \in DOMAIN p
    BY <2>1, <2>5
  <2>8. 1 < j
    BY <2>6, <2>7
  <2>9. p[1] > p[j]
    BY <2>5, <2>7, <2>8 DEF Nesting
  <2>10. d \in Nat /\ p[1] \in Nat /\ d > p[1] /\ p[1] > d
    BY <2>1, <2>3, <2>5, <2>6, <2>9, DoorTypes
  <2> QED
    BY <2>10
<1> QED
  BY <1>4, <1>5

\* A door outlives neither rundoor nor rundosdoor.
LEMMA OrphanStep ==
  ASSUME TypeOK, Shape(stack), Numbered, Exchange, Nesting, NoOrphan, [Next]_vars
  PROVE  NoOrphan'
<1>1. NoOrphan <=> (node = "up" => Living \subseteq Attended(stack))
  BY DEF NoOrphan, Living, Attended
<1>2. NoOrphan' <=> (node' = "up" => Living' \subseteq Attended(stack'))
  BY DEF NoOrphan, Living, Attended
<1>3. CASE Steady
  BY <1>1, <1>2, <1>3 DEF Steady, Older, SameDoors, Living
<1>4. ASSUME NEW d \in Doors, StartDoor(d) \/ StartDosDoor(d)
      PROVE  NoOrphan'
  <2>1. PICK f \in Calls : Called(stack, stack', f) /\ f.door = d
    BY <1>4, StartCalls
  <2>2. d \in Attended(stack') /\ Attended(stack) \subseteq Attended(stack')
    BY <2>1, DoorTypes DEF Called, AttendedBy
  <2>3. Living' \subseteq Living \cup {d}
    BY <1>4 DEF StartDoor, StartDosDoor, Living, TypeOK
  <2>4. node' = node
    BY <1>4 DEF StartDoor, StartDosDoor
  <2> QED
    BY <1>1, <1>2, <2>2, <2>3, <2>4
<1>5. CASE Accept /\ Older
  BY <1>1, <1>2, <1>5, AcceptCalls DEF Accept, procvars, GoneTo, Living
<1>6. CASE KillChild /\ Older
  BY <1>1, <1>2, <1>6 DEF KillChild, Older, Living
<1>7. CASE (AcceptFails \/ DosDoorEnds \/ LoopEnds) /\ Older
  <2>1. PICK where \in {"dos", "accept", "end"} :
          /\ At(where) /\ stack' = Tail(stack) /\ (where = "end" => LoopEnds)
    BY <1>7 DEF AcceptFails, DosDoorEnds, LoopEnds
  <2>2. /\ Ended(stack, stack') /\ Serves(stack[1]) /\ stack[1].door \in Doors
        /\ stack[1].at = where /\ Top = stack[1] /\ node = "up"
    BY <2>1, Left
  <2>3. Attended(stack) \subseteq Attended(stack') \cup {stack[1].door}
    BY <2>2 DEF Ended, AttendedBy
  <2>4. Living' \subseteq Living
    BY <1>7 DEF Older, Living
  <2>5. stack[1].door \notin Living'
    <3>1. CASE AcceptFails \/ DosDoorEnds
      BY <2>2, <3>1 DEF AcceptFails, DosDoorEnds, Living, Alive, TypeOK
    <3>2. CASE LoopEnds
      <4>1. /\ pids = <<>> => stack[1].door \notin Living
            /\ pids # <<>> => Head(pids) = stack[1].door
        BY <2>2, <3>2, EndsLatest
      <4>2. CASE pids = <<>>
        BY <2>4, <4>1, <4>2
      <4>3. CASE pids # <<>>
        BY <2>2, <3>2, <4>1, <4>3 DEF LoopEnds, Living, Alive, TypeOK
      <4> QED
        BY <4>2, <4>3
    <3> QED
      BY <1>7, <3>1, <3>2
  <2> QED
    BY <1>1, <1>2, <2>2, <2>3, <2>4, <2>5
<1> QED
  BY <1>3, <1>4, <1>5, <1>6, <1>7, Steps

\* The list without its first.
LEMMA Shifted ==
  ASSUME TypeOK, Nesting, pids # <<>>, NEW t, t = Shift(pids)
  PROVE  /\ t \in Seq(Doors) /\ Range(t) = Range(pids) \ {Head(pids)}
         /\ \A i, j \in DOMAIN t : i < j => t[i] > t[j]
<1>1. PICK p \in Seq(Doors) : p = pids
  BY DEF TypeOK
<1>2. p # <<>> /\ t = Tail(p) /\ Head(pids) = p[1]
  BY <1>1, Latest
<1>3. /\ t \in Seq(Doors) /\ Len(t) = Len(p) - 1 /\ Len(p) \in Nat \ {0}
      /\ DOMAIN t = 1 .. Len(p) - 1 /\ DOMAIN p = 1 .. Len(p)
      /\ \A i \in DOMAIN t : i + 1 \in DOMAIN p /\ t[i] = p[i + 1]
  BY <1>2
<1>4. \A i, j \in DOMAIN p : i < j => p[i] > p[j]
  BY <1>1 DEF Nesting
<1>5. \A i, j \in DOMAIN t : i < j => t[i] > t[j]
  BY <1>3, <1>4
<1>6. Range(t) \subseteq Range(p) \ {p[1]}
  <2> SUFFICES ASSUME NEW i \in DOMAIN t PROVE t[i] \in Range(p) /\ t[i] # p[1]
    BY DEF Range
  <2>1. i + 1 \in DOMAIN p /\ t[i] = p[i + 1] /\ 1 \in DOMAIN p /\ 1 < i + 1
    BY <1>3
  <2>2. p[1] > p[i + 1]
    BY <1>4, <2>1
  <2>3. p[1] \in Doors /\ p[i + 1] \in Doors
    BY <2>1
  <2>4. p[1] # p[i + 1]
    <3>1. PICK a, b : a = p[1] /\ b = p[i + 1] /\ a \in Nat /\ b \in Nat
      BY <2>3, DoorTypes
    <3>2. a > b
      BY <2>2, <3>1
    <3>3. a # b
      BY <3>1, <3>2
    <3> QED
      BY <3>1, <3>3
  <2> QED
    BY <2>1, <2>4 DEF Range
<1>7. Range(p) \ {p[1]} \subseteq Range(t)
  <2> SUFFICES ASSUME NEW i \in DOMAIN p, p[i] # p[1] PROVE p[i] \in Range(t)
    BY DEF Range
  <2>1. i - 1 \in DOMAIN t /\ t[i - 1] = p[i]
    BY <1>3
  <2> QED
    BY <2>1 DEF Range
<1> QED
  BY <1>1, <1>2, <1>3, <1>5, <1>6, <1>7

\* The loops of well nested calls are those of ever earlier doors, further out.
LEMMA LoopsNested ==
  ASSUME NEW s, Well(s)
  PROVE  \A i, j \in Loops(s) : i < j => s[i].door > s[j].door
  BY DEF Well, Shape, Loops

\* The doors served are finitely many.
LEMMA ServedFinite ==
  ASSUME NEW s
  PROVE  IsFiniteSet(Served(s)) /\ Cardinality(Served(s)) \in Nat
<1>1. PICK S \in SUBSET Doors : S = Served(s)
  BY DEF Served
<1>2. IsFiniteSet(S)
  BY DoorsFinite, FS_Subset
<1>3. Cardinality(S) \in Nat
  BY <1>2, FS_CardinalityType, Zenon
<1> QED
  BY <1>1, <1>2, <1>3

\* What Nesting says of the list and of the doors served.
Listed(list, S, killing, living) ==
  /\ \A i, j \in DOMAIN list : i < j => list[i] > list[j]
  /\ Range(list) \subseteq S
  /\ killing \/ \A p \in Range(list), d \in S : d > p => d \in Range(list)
  /\ living \cap S \subseteq Range(list)

\* The loops, their number and the list of their processes stay together.
LEMMA NestingStep ==
  ASSUME TypeOK, Shape(stack), Numbered, Exchange, Nesting, [Next]_vars
  PROVE  Nesting' /\ pids' \in Seq(Doors)
<1>1. \A i, j \in Loops(stack') : i < j => stack'[i].door > stack'[j].door
  BY CallsWell, LoopsNested
<1>2. SUFFICES /\ doorcnt' = Cardinality(Served(stack'))
               /\ Listed(pids', Served(stack'), At("kill")', Living')
               /\ pids' \in Seq(Doors)
  BY <1>1 DEF Nesting, Listed
<1>3. /\ doorcnt = Cardinality(Served(stack)) /\ pids \in Seq(Doors)
      /\ Listed(pids, Served(stack), At("kill"), Living)
  BY DEF Nesting, Listed, TypeOK
<1>4. Older => Living' \subseteq Living
  BY DEF Older, Living
<1>5. ASSUME pids' = pids, doorcnt' = doorcnt, Served(stack') = Served(stack),
             At("kill") => pids = <<>> \/ At("kill")', Living' \cap Served(stack) \subseteq Living
      PROVE  /\ doorcnt' = Cardinality(Served(stack'))
             /\ Listed(pids', Served(stack'), At("kill")', Living')
             /\ pids' \in Seq(Doors)
  <2>1. pids = <<>> => Range(pids) = {}
    BY DEF Range
  <2> QED
    BY <1>3, <1>5, <2>1 DEF Listed
<1>6. CASE Steady
  <2>1. stack' = stack /\ node' = node => At("kill")' = At("kill")
    BY DEF At, Top
  <2> QED
    BY <1>4, <1>5, <1>6, <2>1 DEF Steady, SameDoors
<1>7. ASSUME NEW d \in Doors, StartDoor(d) \/ StartDosDoor(d)
      PROVE  /\ doorcnt' = Cardinality(Served(stack'))
             /\ Listed(pids', Served(stack'), At("kill")', Living')
             /\ pids' \in Seq(Doors)
  <2>1. PICK f \in Calls : /\ Called(stack, stack', f) /\ f.at \in {"accept", "dos"}
                           /\ f.door = d
    BY <1>7, StartCalls
  <2>2. Served(stack') = Served(stack)
    BY <2>1 DEF Called, ServedBy
  <2>3. proc[d] = "idle" /\ ~At("kill")
    BY <1>7, StartCalls
  <2>4. d \notin Served(stack)
    BY <2>3, ServedAttended DEF Numbered
  <2>5. Living' \subseteq Living \cup {d}
    BY <1>7 DEF StartDoor, StartDosDoor, Living, TypeOK
  <2> QED
    BY <1>5, <1>7, <2>2, <2>3, <2>4, <2>5 DEF StartDoor, StartDosDoor
<1>8. CASE KillChild /\ Older
  <2>1. /\ pids # <<>> /\ pids' = Shift(pids) /\ At("kill") /\ stack' = stack
        /\ UNCHANGED <<doorcnt, node>> /\ proc' = [proc EXCEPT ![Head(pids)] = "gone"]
    BY <1>8 DEF KillChild, Victim
  <2>2. PICK t : t = pids' /\ t = Shift(pids)
    BY <2>1
  <2>3. /\ t \in Seq(Doors) /\ Range(t) = Range(pids) \ {Head(pids)}
        /\ \A i, j \in DOMAIN t : i < j => t[i] > t[j]
    BY <2>1, <2>2, Shifted
  <2>4. Head(pids) \in Doors
    BY <2>1, Latest
  <2>5. Living' \subseteq Living \ {Head(pids)}
    BY <1>4, <1>8, <2>1, <2>4 DEF Living, Alive, TypeOK
  <2>6. At("kill")'
    BY <2>1 DEF At, Top
  <2> QED
    BY <1>3, <2>1, <2>2, <2>3, <2>5, <2>6 DEF Listed
<1>9. CASE (AcceptFails \/ DosDoorEnds) /\ Older
  <2>1. PICK where \in {"dos", "accept"} : At(where) /\ stack' = Tail(stack)
    BY <1>9 DEF AcceptFails, DosDoorEnds
  <2>2. Ended(stack, stack') /\ stack[1].at = where /\ Top = stack[1]
    BY <2>1, Left
  <2>3. Served(stack') = Served(stack) /\ ~At("kill")
    BY <2>1, <2>2 DEF Ended, At
  <2>4. pids' = pids /\ doorcnt' = doorcnt
    BY <1>9 DEF AcceptFails, DosDoorEnds
  <2> QED
    BY <1>4, <1>5, <1>9, <2>3, <2>4
<1>10. CASE Accept /\ Older
  <2>1. /\ GoneTo(stack, stack', "loop") /\ Serves(stack[1]) /\ stack[1].door \in Doors
        /\ stack[1].at = "accept" /\ Top = stack[1]
    BY <1>10, AcceptCalls
  <2>2. PICK d, p, t : /\ d \in Doors /\ d = stack[1].door
                       /\ p \in Seq(Doors) /\ p = pids
                       /\ t = pids' /\ t = <<d>> \o p /\ doorcnt' = doorcnt + 1
    BY <1>3, <1>10, <2>1 DEF Accept
  <2>3. Served(stack') = Served(stack) \cup {d} /\ d \notin Served(stack) /\ ~At("kill")
    BY <2>1, <2>2 DEF GoneTo, At
  <2>4. /\ t \in Seq(Doors) /\ t[1] = d /\ DOMAIN t = 1 .. Len(p) + 1 /\ DOMAIN p = 1 .. Len(p)
        /\ Len(p) \in Nat
        /\ \A i \in DOMAIN p : i + 1 \in DOMAIN t /\ t[i + 1] = p[i]
        /\ \A i \in DOMAIN t : i # 1 => i - 1 \in DOMAIN p /\ t[i] = p[i - 1]
    BY <2>2, Pushed
  <2>5. Range(t) = Range(p) \cup {d}
    <3>1. Range(t) \subseteq Range(p) \cup {d}
      BY <2>4 DEF Range
    <3>2. d \in Range(t)
      BY <2>4 DEF Range
    <3>3. Range(p) \subseteq Range(t)
      BY <2>4 DEF Range
    <3> QED
      BY <3>1, <3>2, <3>3
  <2>6. doorcnt' = Cardinality(Served(stack'))
    <3>1. PICK S : S = Served(stack) /\ IsFiniteSet(S)
      BY ServedFinite
    <3>2. Cardinality(S \cup {d}) = Cardinality(S) + 1
      BY <2>3, <3>1, FS_AddElement
    <3> QED
      BY <1>3, <2>2, <2>3, <3>1, <3>2
  <2>7. \A e \in Served(stack) : d > e
    <3>1. stack # <<>>
      BY <1>10 DEF Accept, At
    <3>2. \A e \in Served(stack) : e \in Attended(stack) /\ e # d
      BY <2>3, ServedAttended
    <3> QED
      BY <2>1, <2>2, <3>1, <3>2, InnermostServed
  <2>8. \A e \in Served(stack) : e \in Doors /\ e \in Nat /\ d \in Nat
    BY <2>2, DoorTypes DEF Served
  <2>9. \A i, j \in DOMAIN t : i < j => t[i] > t[j]
    <3> SUFFICES ASSUME NEW i \in DOMAIN t, NEW j \in DOMAIN t, i < j PROVE t[i] > t[j]
      OBVIOUS
    <3>1. j # 1 /\ j - 1 \in DOMAIN p /\ t[j] = p[j - 1]
      BY <2>4
    <3>2. CASE i = 1
      <4>1. p[j - 1] \in Served(stack)
        BY <1>3, <2>2, <3>1 DEF Listed, Range
      <4> QED
        BY <2>4, <2>7, <3>1, <3>2, <4>1
    <3>3. CASE i # 1
      <4>1. i - 1 \in DOMAIN p /\ t[i] = p[i - 1] /\ i - 1 < j - 1
        BY <2>4, <3>3
      <4> QED
        BY <1>3, <2>2, <3>1, <4>1 DEF Listed
    <3> QED
      BY <3>2, <3>3
  <2>10. \A q \in Range(t), e \in Served(stack') : e > q => e \in Range(t)
    <3> SUFFICES ASSUME NEW q \in Range(t), NEW e \in Served(stack'), e > q, e # d
                 PROVE  e \in Range(t)
      BY <2>5
    <3>1. e \in Served(stack) /\ d > e
      BY <2>3, <2>7
    <3>2. q # d
      BY <2>8, <3>1
    <3>3. e \in Range(pids)
      BY <1>3, <2>2, <2>3, <2>5, <3>1, <3>2 DEF Listed
    <3> QED
      BY <2>2, <2>5, <3>3
  <2>11. Living' \cap Served(stack') \subseteq Range(t)
    BY <1>3, <1>4, <1>10, <2>2, <2>3, <2>5 DEF Listed
  <2>12. Range(t) \subseteq Served(stack')
    BY <1>3, <2>2, <2>3, <2>5 DEF Listed
  <2> QED
    BY <2>2, <2>4, <2>6, <2>9, <2>10, <2>11, <2>12 DEF Listed
<1>11. CASE LoopEnds /\ Older
  <2>1. At("end") /\ stack' = Tail(stack)
    BY <1>11 DEF LoopEnds
  <2>2. /\ Ended(stack, stack') /\ Serves(stack[1]) /\ stack[1].door \in Doors
        /\ stack[1].at = "end" /\ Top = stack[1]
    BY <2>1, Left
  <2>3. PICK d \in Doors : d = stack[1].door
    BY <2>2
  <2>4. /\ Served(stack') = Served(stack) \ {d} /\ d \in Served(stack) /\ ~At("kill")
    BY <2>2, <2>3 DEF Ended, At
  <2>5. doorcnt' = Cardinality(Served(stack'))
    <3>1. PICK S : S = Served(stack) /\ IsFiniteSet(S)
      BY ServedFinite
    <3>2. Cardinality(S \ {d}) = Cardinality(S) - 1
      BY <2>4, <3>1, FS_RemoveElement
    <3> QED
      BY <1>3, <1>11, <2>4, <3>1, <3>2 DEF LoopEnds
  <2>6. /\ pids = <<>> => d \notin Living
        /\ pids # <<>> => Head(pids) = d
    BY <1>11, <2>2, <2>3, EndsLatest
  <2>7. CASE pids = <<>>
    <3>1. pids' = <<>> /\ Range(pids) = {} /\ Range(pids') = {} /\ DOMAIN pids' = {}
      BY <1>11, <2>7 DEF LoopEnds, Shift, Range
    <3>2. Living' \cap Served(stack') = {}
      BY <1>3, <1>4, <1>11, <2>4, <3>1 DEF Listed
    <3> QED
      BY <2>5, <3>1, <3>2 DEF Listed
  <2>8. CASE pids # <<>>
    <3>1. PICK t : t = pids' /\ t = Shift(pids)
      BY <1>11 DEF LoopEnds
    <3>2. /\ t \in Seq(Doors) /\ Range(t) = Range(pids) \ {d}
          /\ \A i, j \in DOMAIN t : i < j => t[i] > t[j]
      BY <2>6, <2>8, <3>1, Shifted
    <3>3. Range(t) \subseteq Served(stack')
      BY <1>3, <2>4, <3>2 DEF Listed
    <3>4. \A q \in Range(t), e \in Served(stack') : e > q => e \in Range(t)
      BY <1>3, <2>4, <3>2 DEF Listed
    <3>5. Living' \cap Served(stack') \subseteq Range(t)
      BY <1>3, <1>4, <1>11, <2>4, <3>2 DEF Listed
    <3> QED
      BY <2>5, <3>1, <3>2, <3>3, <3>4, <3>5 DEF Listed
  <2> QED
    BY <2>7, <2>8
<1> QED
  BY <1>6, <1>7, <1>8, <1>9, <1>10, <1>11, Steps

-----------------------------------------------------------------------------
(* The types, and the invariant.                                           *)

\* What happens to the messages.
LEMMA MessageSteps ==
  ASSUME [Next]_vars
  PROVE  Send \/ ShowOlms \/ UNCHANGED msgvars \/ \E calls : ProcessMsg(calls)
<1>1. CASE UNCHANGED vars
  BY <1>1 DEF vars, msgvars
<1>2. CASE RoundMessage \/ ReadReturns \/ HotMessage
  BY <1>2 DEF RoundMessage, ReadReturns, HotMessage
<1>3. CASE \/ DosDoorEnds \/ Accept \/ AcceptFails \/ RoundRequest \/ RoundClosed \/ RoundIdle
           \/ CmdDone \/ LoopEnds \/ IdleClock \/ KillChild \/ Dropped \/ Prompt
           \/ CommandDone \/ CallEnds \/ HangUp \/ Interrupt \/ TimeIsUp
  BY <1>3 DEF DosDoorEnds, Accept, AcceptFails, RoundRequest, RoundClosed, RoundIdle,
              CmdDone, LoopEnds, IdleClock, KillChild, Dropped, Prompt, CommandDone,
              CallEnds, HangUp, Interrupt, TimeIsUp
<1>4. CASE \/ \E k \in {"enter", "char", "esc"} : Key(k)
           \/ \E d \in Doors : \/ StartDoor(d) \/ StartDosDoor(d) \/ Connect(d)
                               \/ TakeAnswer(d) \/ Exit(d) \/ Dies(d)
                               \/ \E r \in Requests : Ask(d, r)
  BY <1>4 DEF Key, StartDoor, StartDosDoor, Connect, TakeAnswer, Exit, Dies, Ask
<1> QED
  BY <1>1, <1>2, <1>3, <1>4 DEF Next, NodeSteps

\* The messages keep their types.
LEMMA MessageTypes ==
  ASSUME TypeOK, [Next]_vars
  PROVE  /\ \A q \in {queue', olms', shown'} : q \in Seq(DOMAIN Messages)
         /\ sent' \in 0 .. Len(Messages)
<1>1. Len(Messages) \in Nat /\ DOMAIN Messages = 1 .. Len(Messages)
  BY DoorsAssumption
<1>2. /\ queue \in Seq(DOMAIN Messages) /\ olms \in Seq(DOMAIN Messages)
      /\ shown \in Seq(DOMAIN Messages) /\ sent \in 0 .. Len(Messages)
  BY DEF TypeOK
<1>3. CASE Send
  <2>1. sent' \in DOMAIN Messages /\ queue' = Append(queue, sent') /\ UNCHANGED <<olms, shown>>
    BY <1>1, <1>2, <1>3 DEF Send
  <2> QED
    BY <1>1, <1>2, <2>1
<1>4. CASE ShowOlms
  <2>1. shown' = shown \o olms /\ olms' = <<>> /\ UNCHANGED <<queue, sent>>
    BY <1>4 DEF ShowOlms
  <2> QED
    BY <1>2, <2>1
<1>5. ASSUME NEW calls, ProcessMsg(calls)
      PROVE  /\ \A q \in {queue', olms', shown'} : q \in Seq(DOMAIN Messages)
             /\ sent' \in 0 .. Len(Messages)
  <2>1. /\ queue # <<>> /\ queue' = Tail(queue) /\ UNCHANGED <<shown, sent>>
        /\ olms' = olms \/ olms' = Append(olms, Head(queue))
    BY <1>5 DEF ProcessMsg, AddOlm
  <2>2. Head(queue) \in DOMAIN Messages /\ queue' \in Seq(DOMAIN Messages)
    BY <1>2, <2>1
  <2>3. olms' \in Seq(DOMAIN Messages)
    <3>1. PICK S, q, m : /\ S = DOMAIN Messages /\ q = olms /\ m = Head(queue)
                         /\ q \in Seq(S) /\ m \in S
      BY <1>2, <2>2
    <3>2. Append(q, m) \in Seq(S)
      BY <3>1
    <3> QED
      BY <1>2, <2>1, <3>1, <3>2
  <2> QED
    BY <1>2, <2>1, <2>2, <2>3
<1>6. CASE UNCHANGED msgvars
  BY <1>2, <1>6 DEF msgvars
<1> QED
  BY <1>3, <1>4, <1>5, <1>6, MessageSteps

\* So do the line and the clock.
LEMMA UserTypes ==
  ASSUME TypeOK, Shape(stack), [Next]_vars
  PROVE  /\ carrier' \in BOOLEAN /\ timeup' \in BOOLEAN /\ line' \in BOOLEAN
         /\ keys' \in 0 .. MaxKeys /\ faults' \in 0 .. MaxFaults /\ node' \in {"up", "killed"}
<1>1. /\ carrier \in BOOLEAN /\ timeup \in BOOLEAN /\ line \in BOOLEAN
      /\ keys \in 0 .. MaxKeys /\ faults \in 0 .. MaxFaults /\ node \in {"up", "killed"}
      /\ MaxKeys \in Nat /\ MaxFaults \in Nat
  BY DoorsAssumption DEF TypeOK
<1>2. CASE UNCHANGED <<uservars, node>>
  BY <1>1, <1>2 DEF uservars
<1>3. Fault => faults' \in 0 .. MaxFaults
  BY <1>1 DEF Fault
<1>4. ASSUME NEW where \in {"hot", "kill"}, At(where), NEW key, NEW has \in BOOLEAN,
             Returned(key, has)
      PROVE  line' \in BOOLEAN
  BY <1>4, Where, ReturnedCalls
<1>5. CASE Dropped
  <2>1. line' \in BOOLEAN
    BY <1>4, <1>5 DEF Dropped
  <2> QED
    BY <1>1, <1>5, <2>1 DEF Dropped
<1>6. CASE Interrupt
  <2>1. line' \in BOOLEAN
    BY <1>1, <1>4, <1>6 DEF Interrupt
  <2> QED
    BY <1>1, <1>3, <1>6, <2>1 DEF Interrupt
<1>7. CASE \E k \in {"enter", "char", "esc"} : Key(k)
  <2>1. PICK k : Key(k)
    BY <1>7
  <2>2. line' \in BOOLEAN
    BY <1>1, <1>4, <2>1 DEF Key
  <2> QED
    BY <1>1, <2>1, <2>2 DEF Key
<1>8. CASE \/ HangUp \/ TimeIsUp \/ LoopEnds \/ AcceptFails \/ \E d \in Doors : Dies(d)
  BY <1>1, <1>3, <1>8 DEF HangUp, TimeIsUp, LoopEnds, AcceptFails, Dies
<1>9. CASE RoundMessage \/ ReadReturns \/ HotMessage
  <2>1. \E calls : ProcessMsg(calls)
    BY <1>9 DEF RoundMessage, ReadReturns, HotMessage
  <2>2. carrier' \in BOOLEAN
    BY <1>1, <2>1 DEF ProcessMsg
  <2>3. UNCHANGED <<timeup, line, keys, faults, node>>
    BY <1>9 DEF RoundMessage, ReadReturns, HotMessage, uservars
  <2> QED
    BY <1>1, <2>2, <2>3
<1>10. \/ UNCHANGED <<uservars, node>>
       \/ Dropped \/ Interrupt \/ HangUp \/ TimeIsUp \/ LoopEnds \/ AcceptFails
       \/ RoundMessage \/ ReadReturns \/ HotMessage
       \/ \E k \in {"enter", "char", "esc"} : Key(k)
       \/ \E d \in Doors : Dies(d)
  <2>1. CASE UNCHANGED vars
    BY <2>1 DEF vars, uservars
  <2>2. CASE \/ DosDoorEnds \/ Accept \/ RoundRequest \/ RoundClosed \/ RoundIdle
             \/ CmdDone \/ IdleClock \/ KillChild \/ ShowOlms \/ Prompt
             \/ CommandDone \/ CallEnds \/ Send
    BY <2>2 DEF DosDoorEnds, Accept, RoundRequest, RoundClosed, RoundIdle, CmdDone,
                IdleClock, KillChild, ShowOlms, Prompt, CommandDone, CallEnds, Send, uservars
  <2>3. CASE \E d \in Doors : \/ StartDoor(d) \/ StartDosDoor(d) \/ Connect(d)
                              \/ TakeAnswer(d) \/ Exit(d) \/ \E r \in Requests : Ask(d, r)
    BY <2>3 DEF StartDoor, StartDosDoor, Connect, TakeAnswer, Exit, Ask, uservars
  <2> QED
    BY <2>1, <2>2, <2>3 DEF Next, NodeSteps
<1> QED
  BY <1>2, <1>5, <1>6, <1>7, <1>8, <1>9, <1>10

\* And the programs.
LEMMA ProcTypes ==
  ASSUME TypeOK, Shape(stack), Numbered, Exchange, Nesting, [Next]_vars
  PROVE  /\ proc' \in [Doors -> Alive \cup {"idle", "zombie", "gone"}]
         /\ conn' \in [Doors -> BOOLEAN] /\ ans' \in [Doors -> BOOLEAN]
         /\ req' \in [Doors -> Requests \cup {"none"}]
         /\ last' \in [Doors -> Requests \cup {"none"}]
         /\ asked' \in [Doors -> Nat] /\ ran' \in [Doors -> Nat]
         /\ \A d \in Doors : asked'[d] <= MaxAsk[d]
<1>1. /\ proc \in [Doors -> Alive \cup {"idle", "zombie", "gone"}]
      /\ conn \in [Doors -> BOOLEAN] /\ ans \in [Doors -> BOOLEAN]
      /\ req \in [Doors -> Requests \cup {"none"}]
      /\ last \in [Doors -> Requests \cup {"none"}]
      /\ asked \in [Doors -> Nat] /\ ran \in [Doors -> Nat]
      /\ \A d \in Doors : asked[d] <= MaxAsk[d] /\ MaxAsk[d] \in Nat
      /\ Reaped \in [Doors -> Alive \cup {"idle", "zombie", "gone"}]
  BY DoorsAssumption DEF TypeOK, Doors, Reaped
<1>2. conn' \in [Doors -> BOOLEAN]
  <2>1. ASSUME NEW d, NEW b \in BOOLEAN, conn' = [conn EXCEPT ![d] = b]
        PROVE  conn' \in [Doors -> BOOLEAN]
    BY <1>1, <2>1
  <2>2. \/ conn' = conn
        \/ \E d : conn' = [conn EXCEPT ![d] = TRUE] \/ conn' = [conn EXCEPT ![d] = FALSE]
    <3>1. CASE UNCHANGED vars
      BY <3>1 DEF vars, procvars
    <3>2. CASE \/ DosDoorEnds \/ Accept \/ AcceptFails \/ RoundMessage \/ RoundRequest
               \/ RoundClosed \/ RoundIdle \/ ReadReturns \/ CmdDone \/ IdleClock
               \/ HotMessage \/ KillChild \/ Dropped \/ ShowOlms \/ Prompt
      BY <3>2 DEF DosDoorEnds, Accept, AcceptFails, RoundMessage, RoundRequest, RoundClosed,
                  RoundIdle, ReadReturns, CmdDone, IdleClock, HotMessage, KillChild,
                  Dropped, ShowOlms, Prompt, procvars
    <3>3. CASE \/ CommandDone \/ CallEnds \/ Send \/ HangUp \/ Interrupt \/ TimeIsUp
               \/ \E k \in {"enter", "char", "esc"} : Key(k)
      BY <3>3 DEF CommandDone, CallEnds, Send, HangUp, Interrupt, TimeIsUp, Key, procvars
    <3>4. CASE LoopEnds \/ \E d \in Doors : \/ StartDoor(d) \/ StartDosDoor(d) \/ Connect(d)
                                \/ TakeAnswer(d) \/ Exit(d) \/ Dies(d)
                                \/ \E r \in Requests : Ask(d, r)
      BY <3>4 DEF LoopEnds, StartDoor, StartDosDoor, Connect, TakeAnswer, Exit, Dies, Ask
    <3> QED
      BY <3>1, <3>2, <3>3, <3>4 DEF Next, NodeSteps
  <2> QED
    BY <1>1, <2>1, <2>2
<1>3. proc' \in [Doors -> Alive \cup {"idle", "zombie", "gone"}]
  <2>1. ASSUME NEW d, NEW p \in Alive \cup {"idle", "zombie", "gone"},
               proc' = [proc EXCEPT ![d] = p]
        PROVE  proc' \in [Doors -> Alive \cup {"idle", "zombie", "gone"}]
    BY <1>1, <2>1
  <2>2. \/ proc' = proc \/ proc' = Reaped
        \/ \E d, p : /\ proc' = [proc EXCEPT ![d] = p]
                     /\ p \in {"start", "run", "wait", "closing", "zombie", "gone"}
    <3>1. CASE UNCHANGED vars
      BY <3>1 DEF vars, procvars
    <3>2. CASE RoundMessage \/ RoundRequest \/ RoundClosed \/ RoundIdle \/ Interrupt
      BY <3>2 DEF RoundMessage, RoundRequest, RoundClosed, RoundIdle, Interrupt
    <3>3. CASE \/ Accept \/ ReadReturns \/ CmdDone \/ IdleClock \/ HotMessage \/ Dropped
               \/ ShowOlms \/ Prompt
      BY <3>3 DEF Accept, ReadReturns, CmdDone, IdleClock, HotMessage, Dropped, ShowOlms,
                  Prompt, procvars
    <3>4. CASE \/ CommandDone \/ CallEnds \/ Send \/ HangUp \/ TimeIsUp
               \/ \E k \in {"enter", "char", "esc"} : Key(k)
      BY <3>4 DEF CommandDone, CallEnds, Send, HangUp, TimeIsUp, Key, procvars
    <3>5. CASE DosDoorEnds \/ AcceptFails \/ LoopEnds \/ KillChild
      BY <3>5 DEF DosDoorEnds, AcceptFails, LoopEnds, KillChild
    <3>6. ASSUME NEW d \in Doors,
                 StartDoor(d) \/ StartDosDoor(d) \/ Connect(d) \/ TakeAnswer(d) \/ Exit(d) \/ Dies(d)
          PROVE  \E p : /\ proc' = [proc EXCEPT ![d] = p]
                        /\ p \in {"start", "run", "wait", "closing", "zombie", "gone"}
      BY <3>6 DEF StartDoor, StartDosDoor, Connect, TakeAnswer, Exit, Dies
    <3>7. ASSUME NEW d \in Doors, NEW r \in Requests, Ask(d, r)
          PROVE  \E p : /\ proc' = [proc EXCEPT ![d] = p]
                        /\ p \in {"start", "run", "wait", "closing", "zombie", "gone"}
      BY <3>7 DEF Ask
    <3> QED
      BY <3>1, <3>2, <3>3, <3>4, <3>5, <3>6, <3>7 DEF Next, NodeSteps
  <2> QED
    BY <1>1, <2>1, <2>2 DEF Alive
<1>4. ASSUME UNCHANGED <<req, asked, ran, last>>,
             ans' = ans \/ \E d : ans' = [ans EXCEPT ![d] = proc[d] \in Alive]
      PROVE  /\ ans' \in [Doors -> BOOLEAN] /\ req' \in [Doors -> Requests \cup {"none"}]
             /\ last' \in [Doors -> Requests \cup {"none"}]
             /\ asked' \in [Doors -> Nat] /\ ran' \in [Doors -> Nat]
             /\ \A d \in Doors : asked'[d] <= MaxAsk[d]
  <2>1. ASSUME NEW d, ans' = [ans EXCEPT ![d] = proc[d] \in Alive]
        PROVE  ans' \in [Doors -> BOOLEAN]
    <3>1. (proc[d] \in Alive) \in BOOLEAN
      OBVIOUS
    <3>2. ASSUME NEW b \in BOOLEAN, ans' = [ans EXCEPT ![d] = b]
          PROVE  ans' \in [Doors -> BOOLEAN]
      BY <1>1, <3>2
    <3> QED
      BY <2>1, <3>1, <3>2
  <2> QED
    BY <1>1, <1>4, <2>1
<1>5. CASE Quiet \/ Endings \/ Answers \/ Accept
            \/ \E d \in Doors : StartDoor(d) \/ StartDosDoor(d)
  <2>1. UNCHANGED <<req, asked, ran, last>>
    BY <1>5 DEF Quiet, Endings, Answers, Accept, StartDoor, StartDosDoor, procvars
  <2>2. ans' = ans \/ \E d : ans' = [ans EXCEPT ![d] = proc[d] \in Alive]
    BY <1>5 DEF Quiet, Silent, Endings, Answers, Replied, Accept, StartDoor, StartDosDoor,
                procvars
  <2> QED
    BY <1>2, <1>3, <1>4, <2>1, <2>2
<1>6. ASSUME NEW d \in Doors, Round(d)
      PROVE  /\ ans' \in [Doors -> BOOLEAN] /\ req' \in [Doors -> Requests \cup {"none"}]
             /\ last' \in [Doors -> Requests \cup {"none"}]
             /\ ran' \in [Doors -> Nat] /\ asked' = asked
  <2>1. asked' = asked
    BY <1>6 DEF Round
  <2>2. ran' = ran \/ ran' = [ran EXCEPT ![d] = @ + 1]
    BY <1>6 DEF Round
  <2>3. last' = last \/ last' = [last EXCEPT ![d] = req[d]]
    BY <1>6 DEF Round
  <2>4. req' = req \/ req' = [req EXCEPT ![d] = "none"]
    BY <1>6 DEF Round
  <2>5. ans' \in [Doors -> BOOLEAN]
    <3>1. (Reaped[d] \in Alive) \in BOOLEAN
      OBVIOUS
    <3>2. ASSUME NEW b \in BOOLEAN, ans' = [ans EXCEPT ![d] = b]
          PROVE  ans' \in [Doors -> BOOLEAN]
      BY <1>1, <3>2
    <3>3. \/ ans' = ans \/ ans' = [ans EXCEPT ![d] = FALSE]
          \/ ans' = [ans EXCEPT ![d] = Reaped[d] \in Alive]
      BY <1>6 DEF Round
    <3> QED
      BY <1>1, <3>1, <3>2, <3>3
  <2> QED
    BY <1>1, <2>1, <2>2, <2>3, <2>4, <2>5
<1>7. ASSUME NEW d \in Doors, TakeAnswer(d) \/ \E r \in Requests : Ask(d, r)
      PROVE  /\ ans' \in [Doors -> BOOLEAN] /\ req' \in [Doors -> Requests \cup {"none"}]
             /\ last' = last /\ ran' = ran
             /\ asked' \in [Doors -> Nat] /\ \A e \in Doors : asked'[e] <= MaxAsk[e]
  <2>1. CASE TakeAnswer(d)
    BY <1>1, <2>1 DEF TakeAnswer
  <2>2. ASSUME NEW r \in Requests, Ask(d, r)
        PROVE  /\ ans' = ans /\ req' = [req EXCEPT ![d] = r] /\ last' = last /\ ran' = ran
               /\ asked[d] < MaxAsk[d] /\ asked' = [asked EXCEPT ![d] = @ + 1]
    BY <2>2 DEF Ask
  <2>3. CASE \E r \in Requests : Ask(d, r)
    <3>1. \A e \in Doors : asked'[e] \in Nat /\ asked'[e] <= MaxAsk[e]
      BY <1>1, <2>2, <2>3
    <3> QED
      BY <1>1, <2>2, <2>3, <3>1
  <2> QED
    BY <1>7, <2>1, <2>3
<1> QED
  BY <1>1, <1>2, <1>3, <1>5, <1>6, <1>7, Kinds, EndSteps

\* The invariant.
Inv ==
  /\ TypeOK /\ Shape(stack) /\ Numbered
  /\ Exchange /\ Paired /\ Nesting /\ NoOrphan

LEMMA InvInit ==
  ASSUME Init
  PROVE  Inv
<1>1. PICK f : f = Frame("prompt", None)
  OBVIOUS
<1>2. f \in Calls /\ f.at = "prompt" /\ f.for = "main" /\ f.door = None
  <2>1. None \in Doors \cup {None}
    OBVIOUS
  <2> QED
    BY <1>1, <2>1 DEF Frame, Calls, Frames
<1>3. IsRoot(f) /\ FrameOK(f)
  BY <1>2 DEF IsRoot, FrameOK
<1>4. stack \in Seq(Calls) /\ Shape(stack)
      /\ Attended(stack) = {} /\ Served(stack) = {} /\ Waited(stack) = {}
  <2>1. PICK t : t = stack /\ t = <<f>>
    BY <1>1 DEF Init
  <2> QED
    BY <1>2, <1>3, <2>1, ShapeRoot
<1>5. /\ pids = <<>> /\ doorcnt = 0 /\ proc = [d \in Doors |-> "idle"]
      /\ conn = [d \in Doors |-> FALSE] /\ req = [d \in Doors |-> "none"]
      /\ ans = [d \in Doors |-> FALSE] /\ asked = [d \in Doors |-> 0]
      /\ ran = [d \in Doors |-> 0] /\ last = [d \in Doors |-> "none"]
      /\ carrier = TRUE /\ timeup = FALSE /\ line = FALSE /\ keys = 0 /\ faults = 0
      /\ queue = <<>> /\ olms = <<>> /\ shown = <<>> /\ sent = 0 /\ node = "up"
  BY DEF Init
<1>6. TypeOK
  <2>1. MaxKeys \in Nat /\ MaxFaults \in Nat /\ Len(Messages) \in Nat
        /\ \A d \in Doors : 0 <= MaxAsk[d]
    BY DoorsAssumption DEF Doors
  <2>2. pids \in Seq(Doors) /\ \A q \in {queue, olms, shown} : q \in Seq(DOMAIN Messages)
    BY <1>5
  <2>3. /\ proc \in [Doors -> Alive \cup {"idle", "zombie", "gone"}]
        /\ conn \in [Doors -> BOOLEAN] /\ ans \in [Doors -> BOOLEAN]
        /\ req \in [Doors -> Requests \cup {"none"}]
        /\ last \in [Doors -> Requests \cup {"none"}]
        /\ asked \in [Doors -> Nat] /\ ran \in [Doors -> Nat]
        /\ \A d \in Doors : asked[d] <= MaxAsk[d]
    BY <1>5, <2>1
  <2>4. keys \in 0 .. MaxKeys /\ faults \in 0 .. MaxFaults /\ sent \in 0 .. Len(Messages)
    BY <1>5, <2>1
  <2> QED
    BY <1>4, <1>5, <2>2, <2>3, <2>4 DEF TypeOK
<1>7. Living = {}
  BY <1>5 DEF Living, Alive
<1>8. Numbered /\ Exchange
  BY <1>4, <1>5 DEF Numbered, Exchange
<1>9. Paired /\ NoOrphan
  BY <1>7 DEF Paired, NoOrphan
<1>10. Nesting
  <2>1. Loops(stack) = {}
    <3>1. PICK t : t = stack /\ t = <<f>> /\ DOMAIN t = {1} /\ t[1] = f
      BY <1>1 DEF Init
    <3> QED
      BY <1>2, <3>1 DEF Loops, Serves
  <2>2. Cardinality(Served(stack)) = 0
    BY <1>4, FS_EmptySet
  <2>3. Range(pids) = {}
    BY <1>5 DEF Range
  <2> QED
    BY <1>4, <1>5, <1>7, <2>1, <2>2, <2>3 DEF Nesting
<1> QED
  BY <1>4, <1>6, <1>8, <1>9, <1>10 DEF Inv

LEMMA InvStep ==
  ASSUME Inv, [Next]_vars
  PROVE  Inv'
<1>1. TypeOK /\ Shape(stack) /\ Numbered /\ Exchange /\ Paired /\ Nesting /\ NoOrphan
  BY DEF Inv
<1>2. stack' \in Seq(Calls) /\ Shape(stack')
  BY <1>1, CallsWell DEF Well
<1>3. Nesting' /\ pids' \in Seq(Doors)
  BY <1>1, NestingStep
<1>4. doorcnt' \in Nat
  BY <1>3, ServedFinite DEF Nesting
<1>5. TypeOK'
  BY <1>1, <1>2, <1>3, <1>4, MessageTypes, UserTypes, ProcTypes DEF TypeOK
<1>6. Numbered' /\ Exchange' /\ Paired' /\ NoOrphan'
  BY <1>1, NumberedStep, ExchangeStep, OrphanStep
<1> QED
  BY <1>2, <1>3, <1>5, <1>6 DEF Inv

\* The invariant holds.
THEOREM InvHolds == Spec => []Inv
<1>1. Init => Inv
  BY InvInit
<1>2. Inv /\ [Next]_vars => Inv'
  BY InvStep
<1> QED
  BY <1>1, <1>2, PTL DEF Spec

\* Every variable keeps its type: the calls, the list and the processes (rundoor, door_loop).
THEOREM TypesHold == Spec => []TypeOK
<1>1. Inv => TypeOK
  BY DEF Inv
<1> QED
  BY <1>1, InvHolds, PTL

\* However deep doors nest and whatever kills them, doorcnt counts the loops under way, and
\* child_pid_list names the innermost of their doors in order, with every living one
\* (door_loop, kill_children).
THEOREM LoopsCounted == Spec => []Nesting
<1>1. Inv => Nesting
  BY DEF Inv
<1> QED
  BY <1>1, InvHolds, PTL

\* Every request of a living door has been executed once or is the one outstanding, and no
\* answer is left for the next (door_loop, writedm).
THEOREM AnswersPaired == Spec => []Paired
<1>1. Inv => Paired
  BY DEF Inv
<1> QED
  BY <1>1, InvHolds, PTL

\* No program of a door outlives the call that started it (rundoor, rundosdoor), while the
\* node itself lives.
THEOREM NoneOrphaned == Spec => []NoOrphan
<1>1. Inv => NoOrphan
  BY DEF Inv
<1> QED
  BY <1>1, InvHolds, PTL

-----------------------------------------------------------------------------
(* The order of the messages.                                              *)

\* A message read from the socket is later than all that were.
LEMMA Appended ==
  ASSUME NEW S \in SUBSET Nat, NEW s \in Seq(S), NEW m \in S, NEW t, t = Append(s, m),
         Ascending(s), \A x \in Range(s) : x < m
  PROVE  Ascending(t) /\ Range(t) = Range(s) \cup {m}
<1>1. /\ Len(s) \in Nat /\ DOMAIN s = 1 .. Len(s) /\ DOMAIN t = 1 .. Len(s) + 1
      /\ t[Len(s) + 1] = m /\ \A i \in DOMAIN s : t[i] = s[i]
  OBVIOUS
<1>2. Ascending(t)
  <2> SUFFICES ASSUME NEW i \in DOMAIN t, NEW j \in DOMAIN t, i < j PROVE t[i] < t[j]
    BY DEF Ascending
  <2>1. i \in DOMAIN s /\ t[i] = s[i]
    BY <1>1
  <2>2. CASE j \in DOMAIN s
    BY <1>1, <2>1, <2>2 DEF Ascending
  <2>3. CASE j = Len(s) + 1
    BY <1>1, <2>1, <2>3 DEF Range
  <2> QED
    BY <1>1, <2>2, <2>3
<1>3. Range(t) = Range(s) \cup {m}
  <2>1. Range(t) \subseteq Range(s) \cup {m}
    BY <1>1 DEF Range
  <2>2. m \in Range(t)
    BY <1>1 DEF Range
  <2>3. Range(s) \subseteq Range(t)
    BY <1>1 DEF Range
  <2> QED
    BY <2>1, <2>2, <2>3
<1> QED
  BY <1>2, <1>3

\* The messages read stay in the order in which they were sent.
LEMMA OrderStep ==
  ASSUME TypeOK, OlmsInOrder, [Next]_vars
  PROVE  OlmsInOrder'
<1>1. PICK read : read = sent - Len(queue)
  OBVIOUS
<1>2. /\ queue \in Seq(DOMAIN Messages) /\ olms \in Seq(DOMAIN Messages)
      /\ shown \in Seq(DOMAIN Messages) /\ sent \in Nat /\ sent <= Len(Messages)
      /\ DOMAIN Messages = 1 .. Len(Messages) /\ Len(Messages) \in Nat
  BY DoorsAssumption DEF TypeOK
<1>3. /\ \A i \in DOMAIN queue : queue[i] = read + i
      /\ Ascending(shown \o olms)
      /\ Range(shown \o olms) = {m \in 1 .. read : IsOlm(m)}
  BY <1>1 DEF OlmsInOrder
<1>4. read \in Nat
  <2>1. CASE queue = <<>>
    BY <1>1, <1>2, <2>1
  <2>2. CASE queue # <<>>
    <3>1. 1 \in DOMAIN queue /\ queue[1] \in 1 .. Len(Messages) /\ read \in Int
      BY <1>1, <1>2, <2>2
    <3> QED
      BY <1>3, <3>1
  <2> QED
    BY <2>1, <2>2
<1>5. CASE UNCHANGED msgvars
  BY <1>5 DEF msgvars, OlmsInOrder
<1>6. CASE Send
  <2>1. /\ sent' = sent + 1 /\ UNCHANGED <<olms, shown>>
        /\ Len(queue') = Len(queue) + 1 /\ DOMAIN queue' = 1 .. Len(queue) + 1
        /\ queue'[Len(queue) + 1] = sent + 1
        /\ DOMAIN queue = 1 .. Len(queue) /\ Len(queue) \in Nat
        /\ \A i \in DOMAIN queue : queue'[i] = queue[i]
    BY <1>2, <1>6 DEF Send
  <2>2. sent' - Len(queue') = read
    BY <1>1, <1>2, <2>1
  <2>3. \A i \in DOMAIN queue' : queue'[i] = read + i
    <3> SUFFICES ASSUME NEW i \in DOMAIN queue' PROVE queue'[i] = read + i
      OBVIOUS
    <3>1. CASE i \in DOMAIN queue
      BY <1>3, <2>1, <3>1
    <3>2. CASE i = Len(queue) + 1
      <4>1. queue'[i] = sent + 1
        BY <2>1, <3>2
      <4>2. sent = read + Len(queue)
        BY <1>1, <1>2, <2>1
      <4> QED
        BY <1>2, <1>4, <2>1, <3>2, <4>1, <4>2
    <3> QED
      BY <2>1, <3>1, <3>2
  <2> QED
    BY <1>3, <2>1, <2>2, <2>3 DEF OlmsInOrder
<1>7. CASE ShowOlms
  <2>1. shown' \o olms' = shown \o olms /\ UNCHANGED <<queue, sent>>
    BY <1>2, <1>7 DEF ShowOlms
  <2> QED
    BY <2>1 DEF OlmsInOrder
<1>8. ASSUME NEW calls, ProcessMsg(calls)
      PROVE  OlmsInOrder'
  <2>1. PICK m : m = Head(queue)
    OBVIOUS
  <2>2. /\ queue # <<>> /\ queue' = Tail(queue) /\ UNCHANGED <<shown, sent>>
        /\ IF IsOlm(m) THEN olms' = Append(olms, m) ELSE olms' = olms
    BY <1>8, <2>1 DEF ProcessMsg, AddOlm, IsOlm
  <2>3. /\ m = queue[1] /\ 1 \in DOMAIN queue /\ m \in DOMAIN Messages /\ m = read + 1
        /\ Len(queue') = Len(queue) - 1 /\ DOMAIN queue' = 1 .. Len(queue) - 1
        /\ DOMAIN queue = 1 .. Len(queue) /\ Len(queue) \in Nat
        /\ \A i \in DOMAIN queue' : i + 1 \in DOMAIN queue /\ queue'[i] = queue[i + 1]
    <3>1. m = queue[1] /\ 1 \in DOMAIN queue
      BY <1>2, <2>1, <2>2
    <3>2. m \in DOMAIN Messages /\ m = read + 1
      BY <1>2, <1>3, <3>1
    <3> QED
      BY <1>2, <2>2, <3>1, <3>2
  <2>4. sent' - Len(queue') = read + 1
    BY <1>1, <1>2, <2>2, <2>3
  <2>5. \A i \in DOMAIN queue' : queue'[i] = (read + 1) + i
    BY <1>3, <1>4, <2>3
  <2>6. CASE IsOlm(m)
    <3>1. PICK s, t : /\ s = shown \o olms /\ t = shown' \o olms' /\ t = Append(s, m)
                      /\ s \in Seq(DOMAIN Messages)
      <4>1. PICK S, a, b : /\ S = DOMAIN Messages /\ a = shown /\ b = olms
                           /\ a \in Seq(S) /\ b \in Seq(S) /\ m \in S
        BY <1>2, <2>3
      <4>2. a \o b \in Seq(S) /\ a \o Append(b, m) = Append(a \o b, m)
        BY <4>1
      <4> QED
        BY <2>2, <2>6, <4>1, <4>2
    <3>2. DOMAIN Messages \in SUBSET Nat /\ Ascending(s) /\ \A x \in Range(s) : x < m
      BY <1>2, <1>3, <1>4, <2>3, <3>1, SMTT(30)
    <3>3. Ascending(t) /\ Range(t) = Range(s) \cup {m}
      BY <2>3, <3>1, <3>2, Appended
    <3>4. Range(t) = {x \in 1 .. read + 1 : IsOlm(x)}
      BY <1>3, <1>4, <2>3, <2>6, <3>1, <3>3
    <3> QED
      BY <2>4, <2>5, <3>1, <3>3, <3>4 DEF OlmsInOrder
  <2>7. CASE ~IsOlm(m)
    <3>1. shown' \o olms' = shown \o olms
      BY <2>2, <2>7
    <3>2. {x \in 1 .. read + 1 : IsOlm(x)} = {x \in 1 .. read : IsOlm(x)}
      BY <1>4, <2>3, <2>7
    <3> QED
      BY <1>3, <2>4, <2>5, <3>1, <3>2 DEF OlmsInOrder
  <2> QED
    BY <2>6, <2>7
<1> QED
  BY <1>5, <1>6, <1>7, <1>8, MessageSteps

\* Messages to the user are shown in the order they were sent, none twice and none left out
\* (processmsg, Prompt).
THEOREM MessagesOrdered == Spec => []OlmsInOrder
<1>1. Init => OlmsInOrder
  <2> SUFFICES ASSUME Init PROVE OlmsInOrder
    OBVIOUS
  <2>1. queue = <<>> /\ olms = <<>> /\ shown = <<>> /\ sent = 0
    BY DEF Init
  <2>2. shown \o olms = <<>> /\ DOMAIN queue = {} /\ sent - Len(queue) = 0
    <3>1. PICK e : e = <<>>
      OBVIOUS
    <3>2. e \o e = e /\ Len(e) = 0 /\ DOMAIN e = {}
      BY <3>1
    <3>3. shown = e /\ olms = e /\ queue = e /\ sent = 0
      BY <2>1, <3>1
    <3>4. sent - Len(queue) = 0
      <4>1. Len(queue) = 0
        BY <3>2, <3>3
      <4>2. sent = 0
        BY <3>3
      <4> QED
        BY <4>1, <4>2
    <3> QED
      BY <3>1, <3>2, <3>3, <3>4
  <2>3. Ascending(<<>>) /\ Range(<<>>) = {} /\ 1 .. 0 = {}
    BY DEF Ascending, Range
  <2> QED
    BY <2>2, <2>3 DEF OlmsInOrder
<1>2. TypeOK /\ OlmsInOrder /\ [Next]_vars => OlmsInOrder'
  BY OrderStep
<1> QED
  BY <1>1, <1>2, TypesHold, PTL DEF Spec

-----------------------------------------------------------------------------
(* The order in which the doors are killed.                                *)

\* While the node waits for a key or kills, each call for a door is its loop or made by it.
LEMMA LoopOf ==
  ASSUME NEW s \in Seq(Calls), s # <<>>, Shape(s), s[1].at \notin {"accept", "dos"},
         NEW i \in DOMAIN s, s[i].door # None
  PROVE  \E k \in Loops(s) : s[k].door = s[i].door /\ (k = i \/ k = i + 1)
<1>1. FrameOK(s[i]) /\ s[i] \in Calls
  BY DEF Shape
<1>2. CASE Asks(s[i])
  <2>1. i + 1 \in DOMAIN s /\ s[i + 1].at = "loop" /\ s[i + 1].door = s[i].door
    BY <1>2 DEF Shape
  <2>2. FrameOK(s[i + 1])
    BY <2>1 DEF Shape
  <2>3. i + 1 \in Loops(s)
    BY <2>1, <2>2 DEF FrameOK, Serves, Loops
  <2> QED
    BY <2>1, <2>3
<1>3. CASE ~Asks(s[i])
  <2>1. s[i].for = "main"
    BY <1>1, <1>3 DEF Calls, Asks, FrameOK
  <2>2. s[i].at \notin {"accept", "dos"}
    <3>1. CASE i = 1
      BY <3>1
    <3>2. CASE i > 1
      BY <3>2 DEF Shape, Leaves
    <3> QED
      BY <3>1, <3>2
  <2> QED
    BY <2>1, <2>2 DEF Serves, Loops
<1> QED
  BY <1>2, <1>3

LEMMA LatestFirstStep ==
  ASSUME Inv, [Next]_vars, NEW d \in Living, proc'[d] = "gone",
         NEW i \in DOMAIN stack, NEW j \in DOMAIN stack, i < j,
         stack[j].door = d, stack[i].door # d, stack[i].door \in Living
  PROVE  FALSE
<1>1. TypeOK /\ Shape(stack) /\ Numbered /\ Exchange /\ Paired /\ Nesting
  BY DEF Inv
<1>2. PICK s \in Seq(Calls) : s = stack
  BY <1>1 DEF TypeOK
<1>3. /\ s # <<>> /\ Shape(s) /\ 1 \in DOMAIN s /\ i > 0 /\ j > 1
      /\ d \in Doors /\ proc[d] \in Alive
  BY <1>1, <1>2 DEF Living
<1>4. \/ proc' = proc \/ proc' = Reaped
      \/ Quiet \/ AcceptFails \/ DosDoorEnds \/ LoopEnds \/ KillChild
      \/ \E e \in Doors : \/ StartDoor(e) \/ StartDosDoor(e) \/ TakeAnswer(e)
                          \/ \E r \in Requests : Ask(e, r)
  BY <1>1, Kinds DEF Answers, Round, Accept, procvars
<1>5. AcceptFails \/ LoopEnds \/ KillChild
  <2>1. ~(proc' = proc \/ proc' = Reaped \/ Quiet)
    BY <1>3 DEF Reaped, Quiet, ProcStep, Alive
  <2>2. ~DosDoorEnds
    BY <1>1, <1>3 DEF DosDoorEnds, TypeOK, Alive
  <2>3. ASSUME NEW e \in Doors,
               \/ StartDoor(e) \/ StartDosDoor(e) \/ TakeAnswer(e)
               \/ \E r \in Requests : Ask(e, r)
        PROVE  FALSE
    <3>1. \E p \in {"start", "run", "wait", "closing"} : proc' = [proc EXCEPT ![e] = p]
      BY <2>3 DEF StartDoor, StartDosDoor, TakeAnswer, Ask
    <3> QED
      BY <1>1, <1>3, <3>1 DEF TypeOK, Alive
  <2> QED
    BY <1>4, <2>1, <2>2, <2>3
<1>6. CASE AcceptFails \/ LoopEnds
  <2>1. PICK where \in {"accept", "end"} : At(where) /\ stack' = Tail(stack)
    BY <1>6 DEF AcceptFails, LoopEnds
  <2>2. Serves(s[1]) /\ Top = s[1] /\ s[1].door \in Doors
    BY <1>1, <1>2, <2>1, Left
  <2>3. d = s[1].door
    <3>1. \/ proc' = [proc EXCEPT ![Top.door] = "gone"]
          \/ proc' = Reaped
          \/ LoopEnds /\ pids # <<>> /\ proc' = [proc EXCEPT ![Head(pids)] = "gone"]
      BY <1>6 DEF AcceptFails, LoopEnds
    <3>2. LoopEnds /\ pids # <<>> => Head(pids) = Top.door
      BY <1>1, EndsLatest
    <3> QED
      BY <1>1, <1>3, <2>2, <3>1, <3>2 DEF Reaped, TypeOK, Alive
  <2>4. s[1].door > s[j].door
    BY <1>2, <1>3, <2>2, <2>3, Innermost, DoorTypes
  <2> QED
    BY <1>2, <1>3, <2>3, <2>4, DoorTypes
<1>7. CASE KillChild
  <2>1. At("kill") /\ pids # <<>> /\ proc' = [proc EXCEPT ![Head(pids)] = "gone"]
    BY <1>7 DEF KillChild, Victim
  <2>2. d = Head(pids) /\ Head(pids) = pids[1] /\ 1 \in DOMAIN pids
    BY <1>1, <1>3, <2>1, Latest DEF TypeOK, Alive
  <2>3. s[1].at \notin {"accept", "dos"}
    BY <1>1, <1>2, <2>1, Where
  <2>4. PICK e \in Doors : e = s[i].door /\ e # d /\ e \in Living
    BY <1>2 DEF Living
  <2>5. PICK k \in Loops(s) : s[k].door = e /\ (k = i \/ k = i + 1)
    BY <1>2, <1>3, <2>3, <2>4, LoopOf, DoorTypes
  <2>6. PICK l \in Loops(s) : s[l].door = d /\ (l = j \/ l = j + 1)
    BY <1>2, <1>3, <2>3, LoopOf, DoorTypes
  <2>7. k # l /\ k < l
    <3>1. k # l
      BY <2>4, <2>5, <2>6
    <3>2. k # j
      BY <1>2, <2>4, <2>5
    <3> QED
      BY <1>2, <2>5, <2>6, <3>1, <3>2 DEF Loops
  <2>8. e > d
    BY <1>1, <1>2, <2>5, <2>6, <2>7 DEF Nesting
  <2>9. e \in Range(pids)
    BY <1>1, <1>2, <2>4, <2>5 DEF Nesting, Served
  <2>10. PICK m \in DOMAIN pids : pids[m] = e
    BY <2>9 DEF Range
  <2>11. pids \in Seq(Doors)
    BY <1>1 DEF TypeOK
  <2>12. 1 < m
    BY <2>2, <2>4, <2>10, <2>11
  <2>13. d > e
    BY <1>1, <2>2, <2>10, <2>12 DEF Nesting
  <2>14. d \in Nat /\ e \in Nat
    BY <1>3, DoorTypes
  <2> QED
    BY <2>8, <2>13, <2>14
<1> QED
  BY <1>5, <1>6, <1>7

\* The doors are killed the latest first: the process the node kills has no living door
\* above it (kill_children, door_loop).
THEOREM KilledInOrder == Spec => LatestFirst
<1>1. Inv /\ [Next]_vars
        => [\A d \in Living : proc'[d] = "gone" =>
              \A i, j \in DOMAIN stack :
                (i < j /\ stack[j].door = d /\ stack[i].door # d)
                  => stack[i].door \notin Living]_vars
  BY LatestFirstStep
<1> QED
  BY <1>1, InvHolds, PTL DEF Spec, LatestFirst

-----------------------------------------------------------------------------
(* runstdio, under which a node runs other programs (RunStdio): for every    *)
(* set of modes and every time limit.                                        *)

\* The actors of a step of runstdio.
LEMMA RunSteps ==
    ASSUME [RunNext]_runvars
    PROVE  Master \/ Child \/ Deliver \/ LoseCarrier \/ Tick \/ UNCHANGED runvars
  BY DEF RunNext

\* A step leaves the clock alone, starts it, or lets a second pass.
LEMMA ClockStep ==
    ASSUME [RunNext]_runvars
    PROVE  \/ hangup' = hangup
           \/ hangup = NotHung /\ hangup' = 0
           \/ hangup \in 0 .. KillAfter /\ hangup' = hangup + 1
  <1>1. CASE Master
    BY <1>1 DEF Master, CheckInit, WaitInit, SelectFails, Interrupted, Select, CheckCarrier, Forward,
       ReadOut, Reap, Escalate
  <1>2. CASE Child
    BY <1>2 DEF Child, KidStarts, SetupFails, KidExits, KidWrites, KidReads, KidStops,
       KidDetaches
  <1>3. CASE Deliver
    BY <1>3 DEF Deliver
  <1>4. CASE LoseCarrier
    BY <1>4 DEF LoseCarrier
  <1>5. CASE Tick
    BY <1>5 DEF Tick
  <1>6. CASE UNCHANGED runvars
    BY <1>6 DEF runvars
  <1> QED
    BY <1>1, <1>2, <1>3, <1>4, <1>5, <1>6, RunSteps

\* hangup_time's clock stays within its range.
LEMMA ClockType ==
    ASSUME hangup \in NotHung .. Late, [RunNext]_runvars
    PROVE  hangup' \in NotHung .. Late
  BY ClockStep, TimesAssumption DEF NotHung, Late

\* The clock of a hangup is never set back by the code.
THEOREM ClockCorrect == RunSpec => ClockRuns
  <1> DEFINE Typed == hangup \in NotHung .. Late
             Grows == hangup # NotHung => hangup' >= hangup
  <1>1. RunInit => Typed
    BY TimesAssumption DEF RunInit, NotHung, Late
  <1>2. Typed /\ [RunNext]_runvars => Typed'
    BY ClockType
  <1>3. Typed /\ [RunNext]_runvars => [Grows]_runvars
    BY ClockStep, TimesAssumption DEF NotHung, Late
  <1> HIDE DEF Typed, Grows
  <1>4. RunSpec => [][Grows]_runvars
    BY <1>1, <1>2, <1>3, PTL DEF RunSpec
  <1> QED
    BY <1>4 DEF ClockRuns, Grows

-----------------------------------------------------------------------------
(* A child that is dead stays dead, and a reaped one stays reaped.          *)

\* A child that is gone stays gone, and the loop ends only when it is.
LEMMA KidStep ==
    ASSUME [RunNext]_runvars
    PROVE  /\ kid = "gone" => kid' = "gone"
           /\ loop' = "done" => loop = "done" \/ kid' = "gone"
  <1>1. CASE Master
    BY <1>1 DEF Master, CheckInit, WaitInit, SelectFails, Interrupted, Select, CheckCarrier, Forward,
       ReadOut, Reap, Escalate, Goto, child, Dead
  <1>2. CASE Child
    BY <1>2 DEF Child, KidStarts, SetupFails, KidExits, KidWrites, KidReads, KidStops,
       KidDetaches, child
  <1>3. CASE Deliver
    BY <1>3 DEF Deliver
  <1>4. CASE LoseCarrier
    BY <1>4 DEF LoseCarrier, child
  <1>5. CASE Tick
    BY <1>5 DEF Tick, child
  <1>6. CASE UNCHANGED runvars
    BY <1>6 DEF runvars
  <1> QED
    BY <1>1, <1>2, <1>3, <1>4, <1>5, <1>6, RunSteps

\* When runstdio returns, the program it ran is dead and reaped.
THEOREM NoChildLeftCorrect == RunSpec => []NoChildLeft
  <1>1. RunInit => NoChildLeft
    BY DEF RunInit, NoChildLeft
  <1>2. NoChildLeft /\ [RunNext]_runvars => NoChildLeft'
    BY KidStep DEF NoChildLeft
  <1> QED
    BY <1>1, <1>2, PTL DEF RunSpec

-----------------------------------------------------------------------------
(* SIGKILL goes to a child that has stopped, or whose time is over.         *)

GraceInv == hangup \in NotHung .. Late /\ GraceKept

\* Every step keeps the invariant of the grace period.
LEMMA GraceStep ==
    ASSUME GraceInv, [RunNext]_runvars
    PROVE  GraceInv'
  <1>0. hangup' \in NotHung .. Late
    BY ClockType DEF GraceInv
  <1> SUFFICES ASSUME "KILL" \in pend', kid' \in {"init", "run"}
               PROVE  hangup' = Late
    BY <1>0 DEF GraceInv, GraceKept
  <1> USE DEF GraceInv, GraceKept
  <1>1. CASE Escalate
    <2>1. CASE "KILL" \in pend
      BY <1>1, <2>1 DEF Escalate, child
    <2>2. CASE "KILL" \notin pend
      <3>1. hangup > KillAfter /\ hangup' = hangup
        BY <1>1, <2>2 DEF Escalate, Kill
      <3> QED
        BY <3>1, TimesAssumption DEF NotHung, Late
    <2> QED
      BY <2>1, <2>2
  <1>2. CASE Master /\ ~Escalate
    <2>1. "KILL" \in pend /\ kid' = kid
      BY <1>2 DEF Master, CheckInit, WaitInit, SelectFails, Interrupted, Select, CheckCarrier, Forward,
         ReadOut, Reap, Kill, child, Dead
    <2>2. hangup = Late
      BY <2>1
    <2> QED
      BY <2>2, ClockStep, TimesAssumption DEF NotHung, Late
  <1>3. CASE Child
    BY <1>3 DEF Child, KidStarts, SetupFails, KidExits, KidWrites, KidReads, KidStops,
       KidDetaches, KidEnds, child
  <1>4. CASE Deliver
    BY <1>4 DEF Deliver, KidEnds
  <1>5. CASE LoseCarrier
    BY <1>5 DEF LoseCarrier, child
  <1>6. CASE Tick
    BY <1>6, TimesAssumption DEF Tick, child, Late
  <1>7. CASE UNCHANGED runvars
    BY <1>7 DEF runvars
  <1> QED
    BY <1>1, <1>2, <1>3, <1>4, <1>5, <1>6, <1>7, RunSteps

\* No program that still runs is sent SIGKILL before its time is over, whatever the two
\* time limits are.
THEOREM GraceCorrect == RunSpec => []GraceKept
  <1>1. RunInit => GraceInv
    BY TimesAssumption DEF RunInit, GraceInv, GraceKept, NotHung, Late
  <1>2. GraceInv /\ [RunNext]_runvars => GraceInv'
    BY GraceStep
  <1>3. GraceInv => GraceKept
    BY DEF GraceInv
  <1> QED
    BY <1>1, <1>2, <1>3, PTL DEF RunSpec
=============================================================================
