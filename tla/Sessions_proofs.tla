-------------------------- MODULE Sessions_proofs --------------------------
(* Proofs about nodes and logins, for any number of processes, lines, nodes *)
(* and users, with or without kills.                                        *)
EXTENDS Sessions, ZModem, SequenceTheorems, WellFoundedInduction, TLAPS

\* The actors of a step.
LEMMA Steps ==
    ASSUME Next
    PROVE  \/ \E c \in Callers : CallerNext(c)
           \/ \E m \in Modems : ModemNext(m)
           \/ \E p \in Sessions : SessionNext(p)
           \/ \E p \in Uploaders : UploaderNext(p)
  BY DEF Next

\* How the sets of processes and nodes lie in each other.
LEMMA Sets == /\ Callers \subseteq Sessions /\ Modems \subseteq Sessions
              /\ Sessions \subseteq Procs /\ Uploaders \subseteq Procs
              /\ \A m \in Modems : LineNode[m] \in NodeNums
              /\ Telnet1st \in TelnetNodes /\ TelnetNodes \subseteq NodeNums
              /\ NodeNums \subseteq Nat \ {0}
  BY NodesAssumption DEF Sessions, Procs, NodeNums, TelnetNodes

-----------------------------------------------------------------------------
(* Types.  A process past its start has a node number.                      *)

Numbered == \A p \in Sessions : pc[p] # "off" => num[p] \in NodeNums
Placed   == /\ \A m \in Modems : num[m] = LineNode[m]
            /\ \A p \in Procs : pc[p] \in {"look", "claim", "bind"} => p \in Callers
            /\ \A p \in Sessions : pc[p] \notin {"check", "post", "save"}
            /\ \A p \in Uploaders : pc[p] \in {"off", "check", "post", "save"}
Typed == TypeOK /\ Numbered /\ Placed

\* The program starts with typed state.
LEMMA InitTyped == Init => Typed
  <1> SUFFICES ASSUME Init PROVE Typed
    OBVIOUS
  <1>1. \A n \in NodeNums : info[n] \in [pid : Sessions \cup {Nil}, slot : Users \cup {Nobody}]
    BY Sets DEF Init, NoInfo
  <1>2. TypeOK
    BY <1>1, Sets, BoundsAssumption DEF Init, TypeOK, Stages, NoUser
  <1>3. Numbered /\ Placed
    BY Sets, ProcsAssumption DEF Init, Numbered, Placed, Sessions, Procs
  <1> QED
    BY <1>2, <1>3 DEF Typed

\* A caller's way to a node keeps the types.
LEMMA CallerTyped ==
    ASSUME Typed, NEW c \in Callers, CallerNext(c)
    PROVE  Typed'
  <1> USE DEF Typed, TypeOK, Numbered, Placed, Stages, Goto
  <1>0. c \in Sessions /\ c \in Procs /\ c \notin Modems /\ c \notin Uploaders
    BY Sets, ProcsAssumption DEF Sessions
  <1>1. CASE StartCall(c)
    BY <1>0, <1>1, Sets DEF StartCall
  <1>2. CASE LookForNode(c)
    <2>1. CASE Goto(c, "claim") /\ UNCHANGED num
      BY <1>0, <1>2, <2>1, Sets DEF LookForNode
    <2>2. CASE num[c] + 1 \in TelnetNodes /\ num' = [num EXCEPT ![c] = @ + 1] /\ UNCHANGED pc
      <3>1. num[c] + 1 \in NodeNums
        BY <2>2, Sets
      <3> QED
        BY <1>0, <1>2, <2>2, <3>1, Sets DEF LookForNode
    <2>3. CASE num' = [num EXCEPT ![c] = 0] /\ Goto(c, "off")
      BY <1>0, <1>2, <2>3, Sets DEF LookForNode
    <2> QED
      BY <1>2, <2>1, <2>2, <2>3 DEF LookForNode
  <1>3. CASE ClaimNode(c)
    BY <1>0, <1>3, Sets DEF ClaimNode, Entry, Under
  <1>4. CASE BindSocket(c)
    BY <1>0, <1>4, Sets, BoundsAssumption DEF BindSocket
  <1>5. CASE HangUp(c)
    BY <1>0, <1>5, Sets, BoundsAssumption DEF HangUp, Forget, NoInfo, NoUser
  <1>6. CASE Kill(c)
    BY <1>0, <1>6, Sets, BoundsAssumption DEF Kill, Forget, NoInfo, NoUser, Under
  <1> QED
    BY <1>1, <1>2, <1>3, <1>4, <1>5, <1>6 DEF CallerNext

\* So do the steps of a modem node,
LEMMA ModemTyped ==
    ASSUME Typed, NEW m \in Modems, ModemNext(m)
    PROVE  Typed'
  <1> USE DEF Typed, TypeOK, Numbered, Placed, Stages, Goto
  <1>0. m \in Sessions /\ m \in Procs /\ m \notin Callers /\ m \notin Uploaders
    BY Sets, ProcsAssumption DEF Sessions
  <1>1. CASE AnswerModem(m)
    BY <1>0, <1>1, Sets DEF AnswerModem, Entry, NoUser
  <1>2. CASE WaitForCall(m)
    BY <1>0, <1>2, Sets DEF WaitForCall, Entry, NoUser
  <1> QED
    BY <1>1, <1>2 DEF ModemNext

\* an upload being credited,
LEMMA UploadTyped ==
    ASSUME Typed, NEW p \in Procs, NEW from \in {"in", "check"}, Upload(p, from),
           (p \in Uploaders) <=> from = "check"
    PROVE  Typed'
  <1> USE DEF Typed, TypeOK, Numbered, Placed, Stages, Goto
  <1>0. user[p].id \in Users /\ user[p].ul + 1 \in Nat /\ earned[user[p].id] + 1 \in Nat
    BY DEF Upload
  <1>1. isonline(user[p].id) \subseteq NodeNums
    BY DEF isonline, NodesOf, Having, Scanned
  <1>2. p \in Uploaders \/ p \in Sessions
    BY DEF Procs
  <1>3. p \notin Callers \cup Modems \/ p \notin Uploaders
    BY Sets, ProcsAssumption
  <1>4. UNCHANGED <<num, info, path, queue, db, mishap>> /\ pc[p] = from
    BY DEF Upload
  <1>5. CASE Credit(p) /\ Goto(p, IF p \in Uploaders THEN "save" ELSE "in") /\ UNCHANGED target
    BY <1>0, <1>2, <1>3, <1>4, <1>5, Sets, ProcsAssumption DEF Credit
  <1>6. ASSUME NEW n \in NodeNums, target' = [target EXCEPT ![p] = n],
               Goto(p, IF p \in Uploaders THEN "post" ELSE "send"), UNCHANGED <<user, earned>>
        PROVE  Typed'
    BY <1>0, <1>2, <1>3, <1>4, <1>6, Sets, ProcsAssumption
  <1> QED
    BY <1>1, <1>5, <1>6 DEF Upload

\* a credit being sent,
LEMMA SendTyped ==
    ASSUME Typed, NEW p \in Procs, SendCredit(p), p \in Uploaders <=> pc[p] = "post"
    PROVE  Typed'
  <1> USE DEF Typed, TypeOK, Numbered, Placed, Stages, Goto
  <1>0. user[p].id \in Users /\ user[p].ul + 1 \in Nat /\ earned[user[p].id] + 1 \in Nat
    BY DEF SendCredit
  <1>1. path[target[p]] \in Sessions \cup {Nil} /\ target[p] \in NodeNums
    BY DEF SendCredit
  <1>2. queue' \in [Procs -> 0..Room]
    BY <1>1, Sets, BoundsAssumption DEF SendCredit
  <1> QED
    BY <1>0, <1>1, <1>2, Sets DEF SendCredit, Credit, Under

\* the steps from login to logoff,
LEMMA SessionTyped ==
    ASSUME Typed, NEW p \in Sessions, SessionNext(p)
    PROVE  Typed'
  <1> USE DEF Typed, TypeOK, Numbered, Placed, Stages, Goto
  <1>0. p \in Procs /\ p \notin Uploaders /\ pc[p] # "post"
    BY Sets, ProcsAssumption
  <1>1. CASE CheckLogon(p)
    <2>1. UNCHANGED <<num, info, path, queue, target, db, earned>> /\ pc[p] = "login"
      BY <1>1 DEF CheckLogon
    <2>2. CASE Goto(p, "refuse") /\ UNCHANGED <<user, mishap>>
      BY <1>0, <2>1, <2>2, Sets
    <2>3. ASSUME NEW u \in Users, user' = [user EXCEPT ![p] = [id |-> u, ul |-> db[u]]],
                 mishap' \subseteq mishap \cup {"record", "prompts"}, Goto(p, "passwd")
          PROVE  Typed'
      BY <1>0, <2>1, <2>3, Sets
    <2> QED
      BY <1>1, <2>2, <2>3 DEF CheckLogon, Under
  <1>2. CASE Refuse(p)
    <2>1. CASE Goto(p, "leave")
      BY <1>0, <1>2, <2>1, Sets DEF Refuse
    <2>2. CASE Goto(p, "login")
      BY <1>0, <1>2, <2>2, Sets DEF Refuse
    <2> QED
      BY <1>2, <2>1, <2>2 DEF Refuse
  <1>3. CASE RightPassword(p)
    BY <1>0, <1>3, Sets DEF RightPassword, Entry
  <1>4. CASE WrongPassword(p)
    BY <1>0, <1>4, Sets DEF WrongPassword
  <1>5. CASE ChangeNodeStatus(p)
    BY <1>0, <1>5, Sets DEF ChangeNodeStatus, Entry, Slot, Online
  <1>6. CASE Upload(p, "in")
    BY <1>0, <1>6, UploadTyped
  <1>7. CASE SendCredit(p)
    BY <1>0, <1>7, SendTyped
  <1>8. CASE ReceiveCredit(p)
    BY <1>0, <1>8, Sets, BoundsAssumption DEF ReceiveCredit
  <1>9. CASE SaveEdit(p)
    BY <1>0, <1>9, Sets DEF SaveEdit
  <1>10. CASE Logoff(p)
    BY <1>0, <1>10, Sets DEF Logoff, Under
  <1> QED
    BY <1>1, <1>2, <1>3, <1>4, <1>5, <1>6, <1>7, <1>8, <1>9, <1>10 DEF SessionNext

\* and the steps of ftpul.
LEMMA UploaderTyped ==
    ASSUME Typed, NEW p \in Uploaders, UploaderNext(p)
    PROVE  Typed'
  <1> USE DEF Typed, TypeOK, Numbered, Placed, Stages, Goto
  <1>0. p \in Procs /\ p \notin Sessions /\ p \notin Modems /\ p \notin Callers
    BY Sets, ProcsAssumption
  <1>1. CASE LoadForUpload(p)
    BY <1>0, <1>1, Sets DEF LoadForUpload, Under
  <1>2. CASE Upload(p, "check")
    BY <1>0, <1>2, UploadTyped
  <1>3. CASE RejectFile(p)
    BY <1>0, <1>3, Sets DEF RejectFile
  <1>4. CASE SendCredit(p)
    BY <1>0, <1>4, SendTyped DEF SendCredit
  <1>5. CASE SaveUpload(p)
    BY <1>0, <1>5, Sets DEF SaveUpload, NoUser
  <1>6. CASE Kill(p)
    BY <1>0, <1>6, Sets, BoundsAssumption DEF Kill, Forget, NoInfo, NoUser, Under
  <1> QED
    BY <1>1, <1>2, <1>3, <1>4, <1>5, <1>6 DEF UploaderNext

\* Every step keeps the types.
LEMMA TypedKept == Typed /\ [Next]_vars => Typed'
  <1>1. ASSUME Typed, Next PROVE Typed'
    BY <1>1, Steps, CallerTyped, ModemTyped, SessionTyped, UploaderTyped
  <1>2. ASSUME Typed, UNCHANGED vars PROVE Typed'
    BY <1>2 DEF vars, Typed, TypeOK, Numbered, Placed
  <1> QED
    BY <1>1, <1>2

\* Every variable keeps its type.
THEOREM TypeCorrect == Spec => []TypeOK
  <1>1. Typed => TypeOK
    BY DEF Typed
  <1> QED
    BY <1>1, InitTyped, TypedKept, PTL DEF Spec

-----------------------------------------------------------------------------
(* Nodes.  Without a clash no two processes past their claim have one node, *)
(* so that none writes or removes another's files.                          *)

Settled(p) == pc[p] \notin {"off", "look", "claim"}
Apart == "clash" \notin mishap =>
            \A p, q \in Sessions : (p # q /\ Settled(p) /\ Settled(q)) => num[p] # num[q]
Here == Typed /\ Apart /\ Presence

\* What a step of p leaves alone.
Others(p) == /\ mishap \subseteq mishap'
             /\ \A q \in Procs \ {p} : pc'[q] = pc[q] /\ user'[q] = user[q] /\ num'[q] = num[q]

\* Nobody is on line at first.
LEMMA InitHere == Init => Here
  <1> SUFFICES ASSUME Init PROVE Here
    OBVIOUS
  <1>1. \A p \in Sessions : Settled(p) => p \in Modems /\ num[p] = LineNode[p] /\ pc[p] = "wait"
    BY Sets DEF Init, Settled
  <1>2. Apart
    BY <1>1, NodesAssumption DEF Apart
  <1>3. \A m \in Modems : info[LineNode[m]] = [pid |-> m, slot |-> Nobody]
    BY Sets, NodesAssumption DEF Init
  <1>4. \A m \in Modems : path[LineNode[m]] = m
    BY <1>3, Sets DEF Init
  <1>5. \A p \in Sessions : pc[p] = "wait" \/ pc[p] = "off"
    BY Sets DEF Init
  <1>6. Presence
    BY <1>1, <1>3, <1>4, <1>5 DEF Presence, Entry, Slot, Online, Settled
  <1> QED
    BY <1>2, <1>6, InitTyped DEF Here

\* A step of a session writes nothing but its own node's file, and what it
\* leaves there is right.
LEMMA SessionFrame ==
    ASSUME Typed, NEW p \in Sessions, SessionNext(p)
    PROVE  /\ Others(p) /\ num' = num /\ path' = path
           /\ pc[p] \in {"login", "refuse", "passwd", "in", "send"}
           /\ pc'[p] \in {"login", "refuse", "passwd", "in", "send", "leave"}
           /\ \/ info' = [info EXCEPT ![num[p]] = Entry(p, Slot(p)')]
              \/ info' = info /\ (pc'[p] = "leave" \/ Slot(p)' = Slot(p))
  <1> USE DEF Typed, TypeOK, Placed, Stages, Goto, Others, Slot, Online
  <1>0. p \in Procs /\ p \notin Uploaders /\ pc[p] # "post"
    BY Sets, ProcsAssumption
  <1>1. CASE CheckLogon(p)
    BY <1>0, <1>1 DEF CheckLogon
  <1>2. CASE Refuse(p)
    BY <1>0, <1>2 DEF Refuse
  <1>3. CASE RightPassword(p)
    BY <1>0, <1>3 DEF RightPassword, Entry
  <1>4. CASE WrongPassword(p)
    BY <1>0, <1>4 DEF WrongPassword
  <1>5. CASE ChangeNodeStatus(p)
    BY <1>0, <1>5 DEF ChangeNodeStatus, Entry
  <1>6. CASE Upload(p, "in")
    BY <1>0, <1>6 DEF Upload, Credit
  <1>7. CASE SendCredit(p)
    BY <1>0, <1>7 DEF SendCredit, Credit
  <1>8. CASE ReceiveCredit(p)
    BY <1>0, <1>8 DEF ReceiveCredit
  <1>9. CASE SaveEdit(p)
    BY <1>0, <1>9 DEF SaveEdit
  <1>10. CASE Logoff(p)
    BY <1>0, <1>10 DEF Logoff
  <1> QED
    BY <1>1, <1>2, <1>3, <1>4, <1>5, <1>6, <1>7, <1>8, <1>9, <1>10 DEF SessionNext

Present(p) ==
    /\ pc[p] \in {"bind", "wait", "login", "refuse", "passwd", "in", "send"}
          => info[num[p]] = Entry(p, Slot(p))
    /\ pc[p] \in {"wait", "login", "refuse", "passwd", "leave", "in", "send"}
          => path[num[p]] = p

\* The property in terms of Present.
LEMMA PresenceIs == Presence <=> ("clash" \notin mishap => \A p \in Sessions : Present(p))
  BY DEF Presence, Present, Online

\* A step of p that leaves right what others see of p, and the files of other
\* nodes alone.
LEMMA StepHere ==
    ASSUME Here, Typed', Apart', NEW p \in Procs, Others(p),
           p \in Sessions /\ "clash" \notin mishap' => Present(p)',
           "clash" \notin mishap' => \A q \in Sessions \ {p} : Settled(q) =>
               /\ pc[q] # "leave" => info'[num[q]] = info[num[q]]
               /\ pc[q] # "bind" => path'[num[q]] = path[num[q]]
    PROVE  Here'
  <1>1. SUFFICES ASSUME "clash" \notin mishap', NEW q \in Sessions PROVE Present(q)'
    <2>1. Presence' <=> ("clash" \notin mishap' => \A q \in Sessions : Present(q)')
      BY DEF Presence, Present, Online
    <2> QED
      BY <2>1 DEF Here
  <1>2. CASE q = p
    BY <1>1, <1>2
  <1>3. CASE q # p
    <2>1. q \in Procs /\ pc'[q] = pc[q] /\ user'[q] = user[q] /\ num'[q] = num[q]
      BY <1>1, <1>3, Sets DEF Others
    <2>2. Present(q)
      BY <1>1, PresenceIs DEF Here, Others
    <2>3. CASE Settled(q)
      BY <1>1, <1>3, <2>1, <2>2, <2>3 DEF Present, Entry, Slot, Online
    <2>4. CASE ~Settled(q)
      BY <2>1, <2>4 DEF Present, Settled
    <2> QED
      BY <2>3, <2>4
  <1> QED
    BY <1>2, <1>3

\* A session's own steps keep its status file its own.
LEMMA SessionHere ==
    ASSUME Here, Typed', NEW p \in Sessions, SessionNext(p)
    PROVE  Here'
  <1>0. Typed /\ Settled(p) /\ p \in Procs
    BY SessionFrame, Sets DEF Here, Settled
  <1>1. Apart'
    BY <1>0, SessionFrame, Sets DEF Here, Apart, Settled, Others
  <1>2. num[p] \in NodeNums
    BY <1>0 DEF Typed, Numbered, Settled
  <1>3. info \in [NodeNums -> [pid : Sessions \cup {Nil}, slot : Users \cup {Nobody}]]
    BY <1>0 DEF Typed, TypeOK
  <1>4. ASSUME "clash" \notin mishap', NEW q \in Sessions \ {p}, Settled(q)
        PROVE  info'[num[q]] = info[num[q]] /\ path'[num[q]] = path[num[q]]
    <2>1. "clash" \notin mishap
      BY <1>0, <1>4, SessionFrame DEF Others
    <2>2. num[q] # num[p] /\ num[q] \in NodeNums
      BY <1>0, <1>4, <2>1 DEF Here, Apart, Typed, Numbered, Settled
    <2> QED
      BY <1>0, <1>3, <2>2, SessionFrame
  <1>5. ASSUME "clash" \notin mishap' PROVE Present(p)'
    <2>1. Present(p)
      BY <1>0, <1>5, SessionFrame, PresenceIs DEF Here, Others
    <2>2. path'[num'[p]] = p
      BY <1>0, <2>1, SessionFrame DEF Present
    <2>3. pc'[p] # "leave" => info'[num'[p]] = Entry(p, Slot(p)')
      <3>1. CASE info' = [info EXCEPT ![num[p]] = Entry(p, Slot(p)')]
        BY <1>0, <1>2, <1>3, <3>1, SessionFrame
      <3>2. CASE info' = info /\ Slot(p)' = Slot(p)
        BY <1>0, <2>1, <3>2, SessionFrame DEF Present
      <3> QED
        BY <1>0, <3>1, <3>2, SessionFrame
    <2> QED
      BY <1>0, <2>2, <2>3, SessionFrame DEF Present, Entry
  <1>6. Others(p)
    BY <1>0, SessionFrame
  <1> QED
    BY <1>0, <1>1, <1>4, <1>5, <1>6, StepHere

\* A kill leaves every other session's status file alone.
LEMMA KillHere ==
    ASSUME Here, Typed', NEW p \in Procs, Kill(p)
    PROVE  Here'
  <1>0. Typed /\ p # Nil /\ ~Settled(p)' /\ Others(p)
    BY ProcsAssumption DEF Here, Typed, TypeOK, Kill, Forget, Goto, Settled, Others
  <1>1. Apart'
    BY <1>0, Sets DEF Here, Apart, Others, Settled
  <1>2. ASSUME "clash" \notin mishap', NEW q \in Sessions \ {p}, Settled(q)
        PROVE  /\ pc[q] # "leave" => info'[num[q]] = info[num[q]]
               /\ pc[q] # "bind" => path'[num[q]] = path[num[q]]
    <2>1. Present(q) /\ num[q] \in NodeNums
      BY <1>0, <1>2, PresenceIs DEF Here, Others, Typed, Numbered, Settled
    <2>2. pc[q] \in {"bind", "wait", "login", "refuse", "passwd", "in", "send", "leave"}
      BY <1>0, <1>2, Sets DEF Typed, TypeOK, Placed, Stages, Settled
    <2> QED
      BY <1>2, <2>1, <2>2 DEF Kill, Present, Entry
  <1>3. Present(p)'
    BY <1>0 DEF Present, Settled, Kill, Goto, Typed, TypeOK
  <1> QED
    BY <1>0, <1>1, <1>2, <1>3, StepHere

\* Claiming a node keeps the others' status files unless two claims clash.
LEMMA CallerHere ==
    ASSUME Here, Typed', NEW c \in Callers, CallerNext(c)
    PROVE  Here'
  <1> USE DEF Goto
  <1>0. Typed /\ c \in Procs /\ c \in Sessions
    BY Sets DEF Here
  <1>1. pc \in [Procs -> Stages] /\ num \in [Procs -> NodeNums \cup {0}]
        /\ path \in [NodeNums -> Sessions \cup {Nil}] /\ DOMAIN info = NodeNums
    BY <1>0 DEF Typed, TypeOK
  <1>2. CASE StartCall(c) \/ LookForNode(c)
    <2>1. /\ Others(c) /\ ~Settled(c)' /\ info' = info /\ path' = path /\ Present(c)'
      BY <1>0, <1>1, <1>2 DEF StartCall, LookForNode, Others, Settled, Present
    <2>2. Apart'
      BY <1>0, <2>1, Sets DEF Here, Apart, Others, Settled
    <2> QED
      BY <1>0, <2>1, <2>2, StepHere
  <1>3. CASE ClaimNode(c)
    <2>1. Others(c) /\ num' = num /\ path' = path /\ num[c] \in NodeNums
          /\ info' = [info EXCEPT ![num[c]] = Entry(c, Nobody)] /\ pc'[c] = "bind"
      BY <1>0, <1>1, <1>3 DEF ClaimNode, Others, Typed, Numbered
    <2>2. ASSUME "clash" \notin mishap', NEW q \in Sessions \ {c}, Settled(q)
          PROVE  num[q] # num[c]
      BY <1>3, <2>2 DEF ClaimNode, Under, Settled
    <2>3. Apart'
      BY <1>0, <2>1, <2>2, Sets DEF Here, Apart, Others, Settled
    <2>4. Present(c)'
      BY <1>1, <2>1 DEF Present, Slot, Online
    <2> QED
      BY <1>0, <1>1, <2>1, <2>2, <2>3, <2>4, StepHere
  <1>4. CASE BindSocket(c)
    <2>1. Others(c) /\ num' = num /\ info' = info /\ num[c] \in NodeNums /\ user' = user
          /\ path' = [path EXCEPT ![num[c]] = c] /\ pc'[c] = "login" /\ pc[c] = "bind"
      BY <1>0, <1>1, <1>4 DEF BindSocket, Others, Typed, Numbered
    <2>2. ASSUME "clash" \notin mishap', NEW q \in Sessions \ {c}, Settled(q)
          PROVE  num[q] # num[c]
      BY <1>0, <2>1, <2>2 DEF Here, Apart, Others, Settled
    <2>3. Apart'
      BY <1>0, <2>1, <2>2, Sets DEF Here, Apart, Others, Settled
    <2>4. ASSUME "clash" \notin mishap' PROVE Present(c)'
      <3>1. info[num[c]] = Entry(c, Slot(c))
        BY <1>0, <2>1, <2>4, PresenceIs DEF Here, Others, Present
      <3>2. Slot(c)' = Slot(c)
        BY <2>1 DEF Slot, Online
      <3> QED
        BY <1>1, <2>1, <3>1, <3>2 DEF Present, Entry
    <2> QED
      BY <1>0, <1>1, <2>1, <2>2, <2>3, <2>4, StepHere
  <1>5. CASE HangUp(c)
    <2>1. Others(c) /\ num[c] \in NodeNums /\ pc[c] = "leave" /\ pc'[c] = "off"
          /\ info' = [info EXCEPT ![num[c]] = NoInfo] /\ path' = [path EXCEPT ![num[c]] = Nil]
      BY <1>0, <1>1, <1>5 DEF HangUp, Forget, Others, Typed, TypeOK, Numbered
    <2>2. ASSUME "clash" \notin mishap', NEW q \in Sessions \ {c}, Settled(q)
          PROVE  num[q] # num[c]
      BY <1>0, <2>1, <2>2 DEF Here, Apart, Others, Settled
    <2>3. Apart'
      BY <1>0, <2>1, Sets DEF Here, Apart, Others, Settled
    <2>4. Present(c)'
      BY <2>1 DEF Present
    <2> QED
      BY <1>0, <1>1, <2>1, <2>2, <2>3, <2>4, StepHere
  <1>6. CASE Kill(c)
    BY <1>0, <1>6, KillHere
  <1> QED
    BY <1>2, <1>3, <1>4, <1>5, <1>6 DEF CallerNext

\* A modem node writes no file but its own.
LEMMA ModemHere ==
    ASSUME Here, Typed', NEW m \in Modems, ModemNext(m)
    PROVE  Here'
  <1> USE DEF Goto
  <1>0. Typed /\ m \in Procs /\ m \in Sessions
    BY Sets DEF Here
  <1>1. pc \in [Procs -> Stages] /\ DOMAIN info = NodeNums
    BY <1>0 DEF Typed, TypeOK
  <1>2. /\ Others(m) /\ num' = num /\ num[m] \in NodeNums /\ path' = path
        /\ info' = [info EXCEPT ![num[m]] = Entry(m, Nobody)]
        /\ pc[m] \in {"wait", "leave"} /\ pc'[m] \in {"wait", "login"}
    BY <1>0, <1>1 DEF ModemNext, AnswerModem, WaitForCall, Others, Typed, TypeOK, Numbered
  <1>3. ASSUME "clash" \notin mishap', NEW q \in Sessions \ {m}, Settled(q)
        PROVE  num[q] # num[m]
    BY <1>0, <1>2, <1>3 DEF Here, Apart, Others, Settled
  <1>4. Apart'
    BY <1>0, <1>2, <1>3, Sets DEF Here, Apart, Others, Settled
  <1>5. ASSUME "clash" \notin mishap' PROVE Present(m)'
    <2>1. path[num[m]] = m
      BY <1>0, <1>2, <1>5, PresenceIs DEF Here, Others, Present
    <2>2. Slot(m)' = Nobody
      BY <1>2 DEF Slot, Online
    <2> QED
      BY <1>1, <1>2, <2>1, <2>2 DEF Present, Entry
  <1> QED
    BY <1>0, <1>1, <1>2, <1>3, <1>4, <1>5, StepHere

\* An upload writes no status file.
LEMMA UploaderHere ==
    ASSUME Here, Typed', NEW p \in Uploaders, UploaderNext(p)
    PROVE  Here'
  <1> USE DEF Goto
  <1>0. Typed /\ p \in Procs /\ p \notin Sessions
    BY Sets, ProcsAssumption DEF Here
  <1>1. CASE Kill(p)
    BY <1>0, <1>1, KillHere
  <1>2. CASE ~Kill(p)
    <2>1. Others(p) /\ info' = info /\ path' = path
      BY <1>0, <1>2 DEF UploaderNext, LoadForUpload, Upload, RejectFile, SendCredit, SaveUpload,
         Credit, Others, Typed, TypeOK
    <2>2. Apart'
      BY <1>0, <2>1, Sets DEF Here, Apart, Others, Settled
    <2> QED
      BY <1>0, <2>1, <2>2, StepHere
  <1> QED
    BY <1>1, <1>2

\* Every step keeps presence.
LEMMA HereKept == Here /\ [Next]_vars => Here'
  <1>1. ASSUME Here, Next PROVE Here'
    <2>1. Typed'
      BY <1>1, TypedKept DEF Here
    <2> QED
      BY <1>1, <2>1, Steps, CallerHere, ModemHere, SessionHere, UploaderHere
  <1>2. ASSUME Here, UNCHANGED vars PROVE Here'
    <2>1. Typed'
      BY <1>2, TypedKept DEF Here
    <2> QED
      BY <1>2, <2>1 DEF Here, vars, Apart, Presence, Settled, Slot, Entry
  <1> QED
    BY <1>1, <1>2

\* Short of a clash, nodeinfo files and sockets are those of their nodes'
\* processes.
THEOREM PresenceCorrect == Spec => []Presence
  <1>1. Here => Presence
    BY DEF Here
  <1> QED
    BY <1>1, InitHere, HereKept, PTL DEF Spec

-----------------------------------------------------------------------------
(* One session for each user: whoever asks for a password had found the     *)
(* user on no node, and nobody else is asked for it at the same time.       *)

\* Where the entries lead to every node, who is named in a node's file is
\* found.
LEMMA ServedFound ==
    ASSUME AllScanned, NEW u, NEW n \in NodeNums, info[n].slot = u
    PROVE  NodesOf(u) # {}
  <1>1. PICK i \in DOMAIN Multinode : n \in Scanned(Multinode[i])
    BY DEF AllScanned
  <1>2. n \in Having(u, i)
    BY <1>1 DEF Having
  <1> QED
    BY <1>1, <1>2 DEF NodesOf

Claiming(p) == pc[p] \in {"passwd", "in", "send"}
Single == (~Allow2 /\ AllScanned /\ mishap \cap {"clash", "prompts"} = {}) =>
              \A p, q \in Sessions : (p # q /\ Claiming(p) /\ Claiming(q))
                                          => user[p].id # user[q].id

\* A session comes to claim a user's name in no other step than CheckLogon.
LEMMA ClaimFrame ==
    ASSUME Typed, NEW p \in Procs, Next, ~ CheckLogon(p), Claiming(p)'
    PROVE  Claiming(p) /\ user'[p].id = user[p].id
  <1> USE DEF Typed, TypeOK, Goto, Claiming
  <1>1. ASSUME NEW q \in Procs, q # p, Others(q) PROVE Claiming(p) /\ user'[p].id = user[p].id
    BY <1>1 DEF Others
  <1>2. ASSUME NEW c \in Callers, CallerNext(c) PROVE Claiming(p) /\ user'[p].id = user[p].id
    <2>0. c \in Procs
      BY Sets
    <2>1. CASE StartCall(c) \/ ClaimNode(c) \/ BindSocket(c)
      BY <2>0, <2>1 DEF StartCall, ClaimNode, BindSocket
    <2>2. CASE LookForNode(c)
      BY <2>0, <2>2 DEF LookForNode
    <2>3. CASE HangUp(c)
      BY <2>0, <2>3 DEF HangUp, Forget
    <2>4. CASE Kill(c)
      BY <2>0, <2>4 DEF Kill, Forget
    <2> QED
      BY <1>2, <2>1, <2>2, <2>3, <2>4 DEF CallerNext
  <1>3. ASSUME NEW m \in Modems, ModemNext(m) PROVE Claiming(p) /\ user'[p].id = user[p].id
    BY <1>3, Sets DEF ModemNext, AnswerModem, WaitForCall
  <1>4. ASSUME NEW q \in Sessions, SessionNext(q) PROVE Claiming(p) /\ user'[p].id = user[p].id
    <2>1. CASE q # p
      BY <1>1, <1>4, <2>1, SessionFrame, Sets
    <2>2. CASE q = p
      <3>1. p \notin Uploaders /\ pc[p] # "post"
        BY <2>2, Sets, ProcsAssumption DEF Placed
      <3>2. SessionNext(p)
        BY <1>4, <2>2, Zenon
      <3>3. CASE Upload(p, "in")
        BY <3>1, <3>3 DEF Upload, Credit
      <3>4. CASE SendCredit(p)
        BY <3>1, <3>4 DEF SendCredit, Credit
      <3>5. CASE ReceiveCredit(p)
        BY <3>5 DEF ReceiveCredit
      <3>6. CASE RightPassword(p) \/ ChangeNodeStatus(p) \/ SaveEdit(p)
        BY <3>6 DEF RightPassword, ChangeNodeStatus, SaveEdit
      <3>7. CASE Refuse(p) \/ WrongPassword(p) \/ Logoff(p)
        BY <3>7 DEF Refuse, WrongPassword, Logoff
      <3> QED
        BY <3>2, <3>3, <3>4, <3>5, <3>6, <3>7 DEF SessionNext
    <2> QED
      BY <2>1, <2>2
  <1>5. ASSUME NEW u \in Uploaders, UploaderNext(u) PROVE Claiming(p) /\ user'[p].id = user[p].id
    <2>0. u \in Procs
      BY Sets
    <2>1. CASE LoadForUpload(u) \/ RejectFile(u)
      BY <2>0, <2>1 DEF LoadForUpload, RejectFile
    <2>2. CASE Upload(u, "check")
      BY <1>5, <2>0, <2>2 DEF Upload, Credit
    <2>3. CASE SendCredit(u)
      BY <1>5, <2>0, <2>3 DEF SendCredit, Credit
    <2>4. CASE SaveUpload(u)
      BY <2>0, <2>4 DEF SaveUpload
    <2>5. CASE Kill(u)
      BY <2>0, <2>5 DEF Kill, Forget
    <2> QED
      BY <1>5, <2>1, <2>2, <2>3, <2>4, <2>5 DEF UploaderNext
  <1> QED
    BY <1>2, <1>3, <1>4, <1>5, Steps

\* What went wrong is remembered.
LEMMA MishapGrows ==
    ASSUME Next PROVE mishap \subseteq mishap'
  <1>1. ASSUME NEW c \in Callers, CallerNext(c) PROVE mishap \subseteq mishap'
    BY <1>1 DEF CallerNext, StartCall, LookForNode, ClaimNode, BindSocket, HangUp, Kill
  <1>2. ASSUME NEW m \in Modems, ModemNext(m) PROVE mishap \subseteq mishap'
    BY <1>2 DEF ModemNext, AnswerModem, WaitForCall
  <1>3. ASSUME NEW q \in Sessions, SessionNext(q) PROVE mishap \subseteq mishap'
    BY <1>3 DEF SessionNext, CheckLogon, Refuse, RightPassword, WrongPassword,
       ChangeNodeStatus, Upload, SendCredit, ReceiveCredit, SaveEdit, Logoff
  <1>4. ASSUME NEW u \in Uploaders, UploaderNext(u) PROVE mishap \subseteq mishap'
    BY <1>4 DEF UploaderNext, LoadForUpload, Upload, RejectFile, SendCredit, SaveUpload, Kill
  <1> QED
    BY <1>1, <1>2, <1>3, <1>4, Steps

\* Every step keeps one session for a user, until two prompts are open at once.
LEMMA SingleKept == Here /\ Single /\ [Next]_vars => Single'
  <1>1. ASSUME UNCHANGED vars, Single PROVE Single'
    BY <1>1 DEF vars, Single, Claiming
  <1>2. ASSUME Here, Single, Next PROVE Single'
    <2>1. SUFFICES ASSUME ~Allow2, AllScanned, mishap' \cap {"clash", "prompts"} = {},
                          NEW p \in Sessions, NEW q \in Sessions, p # q,
                          Claiming(p)', Claiming(q)'
                   PROVE  user'[p].id # user'[q].id
      BY DEF Single
    <2>2. mishap \cap {"clash", "prompts"} = {} /\ Typed /\ p \in Procs /\ q \in Procs
      BY <1>2, <2>1, MishapGrows, Sets DEF Here
    <2>3. ASSUME NEW x \in Sessions, NEW y \in Sessions, x # y, CheckLogon(x), Claiming(x)',
                 Claiming(y)'
          PROVE  user'[x].id # user'[y].id
      <3>1. PICK u \in Users :
               /\ NodesOf(u) = {}
               /\ user' = [user EXCEPT ![x] = [id |-> u, ul |-> db[u]]]
               /\ \A k \in Holders(u) : pc[k] # "passwd"
        <4>1. pc'[x] # "refuse" /\ "prompts" \notin mishap' /\ pc \in [Procs -> Stages]
          BY <2>1, <2>2, <2>3 DEF Claiming, Typed, TypeOK
        <4>2. ~ Goto(x, "refuse")
          BY <2>3, <4>1, Sets DEF Goto
        <4> QED
          BY <2>1, <2>3, <4>1, <4>2 DEF CheckLogon, Under
      <3>2. Claiming(y) /\ user'[y] = user[y] /\ user'[x].id = u /\ y \in Procs
        BY <2>2, <2>3, <3>1, Sets DEF CheckLogon, Claiming, Goto, Typed, TypeOK
      <3>3. CASE pc[y] = "passwd"
        BY <3>1, <3>2, <3>3 DEF Holders
      <3>4. CASE pc[y] \in {"in", "send"}
        <4>1. info[num[y]] = Entry(y, user[y].id) /\ num[y] \in NodeNums
          BY <1>2, <2>2, <3>4, PresenceIs
             DEF Here, Present, Slot, Online, Typed, Numbered
        <4> QED
          BY <2>1, <3>1, <3>2, <4>1, ServedFound DEF Entry
      <3> QED
        BY <3>2, <3>3, <3>4 DEF Claiming
    <2>4. CASE CheckLogon(p) \/ CheckLogon(q)
      BY <2>1, <2>3, <2>4
    <2>5. CASE ~CheckLogon(p) /\ ~CheckLogon(q)
      BY <1>2, <2>1, <2>2, <2>5, ClaimFrame DEF Single
    <2> QED
      BY <2>4, <2>5
  <1> QED
    BY <1>1, <1>2

\* Short of a clash and of two prompts at once, a user is on line once where
\* more is not allowed.
THEOREM OneSessionCorrect == Spec => []OneSessionUnlessPrompts
  <1>1. Init => Single
    BY Sets DEF Init, Single, Claiming
  <1>2. Single => OneSessionUnlessPrompts
    BY DEF Single, OneSessionUnlessPrompts, Claiming, Online
  <1> QED
    BY <1>1, <1>2, InitHere, HereKept, SingleKept, PTL DEF Spec

-----------------------------------------------------------------------------
(* Credits.  Until a mishap a user is in the hands of one session, of one    *)
(* upload, or of both, where the session is past the password and outlives   *)
(* the upload.  The session's copy and what lies in its socket make up what  *)
(* was earned; an upload's copy counts when there is no session, and the     *)
(* file when there is neither, or nothing but a prompt.                      *)

\* A socket's name leads to the process that has the node.
Paths == \A n \in NodeNums : path[n] # Nil => num[path[n]] = n /\ Settled(path[n])

Crediting(p) == pc[p] \in {"check", "post", "save"}
Apiece == \A p, q \in Procs : p # q /\ user[p].id = user[q].id =>
             /\ ~(Claiming(p) /\ Claiming(q))
             /\ ~(Crediting(p) /\ Crediting(q))
             /\ ~(Crediting(p) /\ pc[q] = "passwd")
Awaited == \A p \in Procs : /\ queue[p] > 0 => pc[p] \in Online
                            /\ pc[p] = "send" => target[p] # num[p]
InSession == \A p \in Procs : Claiming(p) => user[p].ul + queue[p] = earned[user[p].id]
Unclaimed(u) == \A p \in Procs : Claiming(p) => user[p].id # u
InUpload  == \A p \in Procs : Crediting(p) /\ Unclaimed(user[p].id) => user[p].ul = earned[user[p].id]
OnFile == \A u \in Users : (\A p \in Procs : user[p].id = u => ~Crediting(p) /\ pc[p] \notin Online)
                              => db[u] = earned[u]
Exact == Apiece /\ Awaited /\ InSession /\ InUpload /\ OnFile
Credits == Here /\ Paths /\ (AllScanned /\ mishap = {} => Exact)

\* A set of numbers has a least one ...
LEMMA Least ==
    ASSUME NEW S, S \subseteq Nat, S # {}
    PROVE  \E n \in S : \A k \in S : n <= k
  <1>1. \E n \in S : \A k \in S : ~(<<k, n>> \in OpToRel(<, Nat))
    BY WFMin, NatLessThanWellFounded
  <1>2. \A k, n \in S : k < n => <<k, n>> \in OpToRel(<, Nat)
    BY DEF OpToRel
  <1>3. \E n \in S : \A k \in S : ~(k < n)
    BY <1>1, <1>2, Zenon
  <1>4. \A k, n \in S : ~(k < n) => n <= k
    BY SMT
  <1> QED
    BY <1>3, <1>4

\* ... so that isonline finds a user whom some node serves.
LEMMA FoundOnline ==
    ASSUME NEW u, NodesOf(u) # {}
    PROVE  isonline(u) # {}
  <1> DEFINE S == {i \in DOMAIN Multinode : Having(u, i) # {}}
  <1>1. S \subseteq Nat /\ S # {}
    BY MultinodeAssumption DEF NodesOf
  <1>2. PICK i \in S : \A j \in S : i <= j
    BY <1>1, Least
  <1>3. Having(u, i) \subseteq Nat /\ Having(u, i) # {}
    BY <1>2, Sets DEF Having, Scanned
  <1>4. PICK n \in Having(u, i) : \A k \in Having(u, i) : n <= k
    BY <1>3, Least
  <1>5. ASSUME NEW j \in DOMAIN Multinode, j < i PROVE Having(u, j) = {}
    <2>1. i \in Nat /\ j \in Nat
      BY <1>1, <1>2, MultinodeAssumption
    <2> QED
      BY <1>2, <1>5, <2>1
  <1> QED
    BY <1>2, <1>4, <1>5 DEF isonline, NodesOf

\* The names of sockets stay right.
LEMMA PathsInit == Init => Paths
  <1> SUFFICES ASSUME Init PROVE Paths
    OBVIOUS
  <1>1. ASSUME NEW n \in NodeNums, path[n] # Nil
        PROVE  num[path[n]] = n /\ Settled(path[n])
    <2>1. info[n] # NoInfo
      BY <1>1 DEF Init, NoInfo
    <2>2. \E m \in Modems : LineNode[m] = n
      BY <2>1 DEF Init
    <2>3. path[n] = CHOOSE m \in Modems : LineNode[m] = n
      BY <2>2 DEF Init
    <2>4. path[n] \in Modems /\ LineNode[path[n]] = n
      BY <2>2, <2>3
    <2> QED
      BY <2>4, Sets DEF Init, Settled
  <1> QED
    BY <1>1 DEF Paths

\* Every step keeps them so.
LEMMA PathsKept == Typed /\ Paths /\ [Next]_vars => Paths'
  <1>1. ASSUME UNCHANGED vars, Paths PROVE Paths'
    BY <1>1 DEF vars, Paths, Settled
  <1>2. ASSUME Typed, Paths, Next PROVE Paths'
    <2> USE DEF Typed, TypeOK, Goto, Paths, Settled
    <2>1. ASSUME NEW c \in Callers, CallerNext(c) PROVE Paths'
      <3>0. c \in Procs /\ c \in Sessions /\ c # Nil
        BY Sets, ProcsAssumption
      <3>1. CASE StartCall(c)
        BY <1>2, <3>0, <3>1 DEF StartCall
      <3>2. CASE LookForNode(c)
        <4>1. \A n \in NodeNums : path[n] \in (Sessions \cup {Nil}) \ {c}
          BY <1>2, <3>0, <3>2 DEF LookForNode
        <4>2. path' = path /\ \A q \in Procs \ {c} : pc'[q] = pc[q] /\ num'[q] = num[q]
          BY <1>2, <3>0, <3>2 DEF LookForNode
        <4> QED
          BY <1>2, <4>1, <4>2, Sets
      <3>3. CASE ClaimNode(c)
        BY <1>2, <3>0, <3>3 DEF ClaimNode
      <3>4. CASE BindSocket(c)
        BY <1>2, <3>0, <3>4 DEF BindSocket
      <3>5. CASE HangUp(c)
        BY <1>2, <3>0, <3>5 DEF HangUp, Forget
      <3>6. CASE Kill(c)
        BY <1>2, <3>0, <3>6 DEF Kill, Forget
      <3> QED
        BY <2>1, <3>1, <3>2, <3>3, <3>4, <3>5, <3>6 DEF CallerNext
    <2>2. ASSUME NEW m \in Modems, ModemNext(m) PROVE Paths'
      BY <1>2, <2>2, Sets DEF ModemNext, AnswerModem, WaitForCall
    <2>3. ASSUME NEW p \in Sessions, SessionNext(p) PROVE Paths'
      <3>1. \A n \in NodeNums : path[n] \in Sessions \cup {Nil}
        BY <1>2
      <3>2. /\ Others(p) /\ num' = num /\ path' = path
            /\ pc'[p] \in {"login", "refuse", "passwd", "in", "send", "leave"}
        BY <1>2, <2>3, SessionFrame
      <3> QED
        BY <1>2, <3>1, <3>2, Sets DEF Others
    <2>4. ASSUME NEW p \in Uploaders, UploaderNext(p) PROVE Paths'
      <3>1. path \in [NodeNums -> Sessions \cup {Nil}] /\ \A n \in NodeNums : path[n] # p
        BY <1>2, Sets, ProcsAssumption
      <3>2. /\ \A q \in Procs \ {p} : pc'[q] = pc[q] /\ num'[q] = num[q]
            /\ path' = path
        <4>0. p \in Procs
          BY Sets
        <4>1. CASE ~Kill(p)
          BY <1>2, <2>4, <4>0, <4>1
             DEF UploaderNext, LoadForUpload, Upload, RejectFile, SendCredit, SaveUpload
        <4>2. CASE Kill(p)
          <5>1. path' = path
            BY <3>1, <4>2 DEF Kill
          <5> QED
            BY <1>2, <4>0, <4>2, <5>1 DEF Kill, Forget
        <4> QED
          BY <4>1, <4>2
      <3> QED
        BY <1>2, <3>1, <3>2, Sets
    <2> QED
      BY <1>2, <2>1, <2>2, <2>3, <2>4, Steps
  <1> QED
    BY <1>1, <1>2

\* A process's step that neither takes nor gives back a record, nor counts.
Quiet(p) == /\ Claiming(p)' = Claiming(p) /\ Crediting(p)' = Crediting(p)
            /\ pc'[p] = "passwd" => pc[p] = "passwd"
            /\ pc[p] \in Online => pc'[p] \in Online
            /\ Claiming(p) \/ Crediting(p) => user'[p] = user[p] /\ queue'[p] = queue[p]
            /\ queue'[p] > 0 => queue'[p] = queue[p]
            /\ pc'[p] = "send" => target'[p] # num'[p]

\* It leaves the sums as they were.
LEMMA QuietStep ==
    ASSUME Typed, Typed', Exact, db' = db, earned' = earned, \A p \in Procs : Quiet(p)
    PROVE  Exact'
  <1> USE DEF Exact, Quiet, Claiming, Crediting, Online
  <1>1. Apiece'
    BY DEF Apiece
  <1>2. Awaited'
    BY DEF Awaited
  <1>3. InSession'
    BY DEF InSession
  <1>4. InUpload'
    BY DEF InUpload, Unclaimed
  <1>5. OnFile'
    BY DEF OnFile
  <1> QED
    BY <1>1, <1>2, <1>3, <1>4, <1>5

\* All but p are as before.
Same(p) == \A q \in Procs \ {p} : /\ pc'[q] = pc[q] /\ user'[q] = user[q] /\ queue'[q] = queue[q]
                                  /\ target'[q] = target[q] /\ num'[q] = num[q]

\* Whoever does not take the step is quiet.
LEMMA SameQuiet ==
    ASSUME Typed, Exact, NEW p \in Procs, Same(p), NEW q \in Procs, q # p
    PROVE  Quiet(q)
  BY DEF Same, Quiet, Claiming, Crediting, Exact, Awaited

\* Nothing lies in the socket of a process that is not on line.
LEMMA NothingWaits ==
    ASSUME Typed, Exact, NEW p \in Procs, pc[p] \notin Online
    PROVE  queue[p] = 0
  <1>1. queue[p] \in 0 .. Room
    BY DEF Typed, TypeOK
  <1>2. ~(queue[p] > 0)
    BY DEF Exact, Awaited
  <1> QED
    BY <1>1, <1>2, BoundsAssumption

\* A record loaded at the prompt is what was earned.
LEMMA LogonExact ==
    ASSUME Typed, Typed', Exact, NEW p \in Sessions, CheckLogon(p), mishap' = {}
    PROVE  Exact'
  <1> USE DEF Typed, TypeOK, Goto
  <1>0. p \in Procs /\ p \notin Uploaders /\ pc[p] = "login"
    BY Sets, ProcsAssumption DEF CheckLogon
  <1>1. PICK u \in Users : \/ Goto(p, "refuse") /\ UNCHANGED <<user, mishap>>
                           \/ /\ user' = [user EXCEPT ![p] = [id |-> u, ul |-> db[u]]]
                              /\ Holders(u) = {}
                              /\ Goto(p, "passwd")
    BY DEF CheckLogon, Under
  <1>2. UNCHANGED <<num, info, path, queue, target, db, earned>>
    BY DEF CheckLogon
  <1>3. CASE Goto(p, "refuse") /\ UNCHANGED <<user, mishap>>
    <2>1. Same(p) /\ Quiet(p)
      BY <1>0, <1>2, <1>3 DEF Same, Quiet, Claiming, Crediting, Online
    <2> HIDE DEF Typed, TypeOK, Goto
    <2>2. \A q \in Procs : Quiet(q)
      BY <1>0, <2>1, SameQuiet
    <2> QED
      BY <1>2, <2>2, QuietStep
  <1>4. CASE user' = [user EXCEPT ![p] = [id |-> u, ul |-> db[u]]] /\ Holders(u) = {} /\ Goto(p, "passwd")
    <2>1. \A q \in Procs : user[q].id = u => ~Claiming(q) /\ ~Crediting(q)
      BY <1>4 DEF Holders, Claiming, Crediting
    <2>2. queue[p] = 0
      BY <1>0, NothingWaits DEF Online
    <2>3. db[u] = earned[u]
      BY <2>1 DEF Exact, OnFile, Claiming, Online
    <2>4. /\ user'[p].id = u /\ user'[p].ul = db[u] /\ pc'[p] = "passwd"
          /\ \A q \in Procs \ {p} : pc'[q] = pc[q] /\ user'[q] = user[q]
      BY <1>0, <1>4
    <2> HIDE DEF Typed, TypeOK, Goto
    <2>5. Apiece'
      BY <1>0, <2>1, <2>4 DEF Exact, Apiece, Claiming, Crediting
    <2>6. Awaited'
      BY <1>0, <1>2, <2>2, <2>4 DEF Exact, Awaited, Online
    <2>7. InSession'
      BY <1>0, <1>2, <2>2, <2>3, <2>4, SMT DEF Exact, InSession, Claiming, Typed, TypeOK
    <2>8. InUpload'
      BY <1>0, <1>2, <2>1, <2>4 DEF Exact, InUpload, Claiming, Crediting, Unclaimed
    <2>9. OnFile'
      <3>1. ASSUME NEW w \in Users, (\A q \in Procs : user[q].id = w => ~Crediting(q) /\ pc[q] \notin Online)'
            PROVE  db'[w] = earned'[w]
        <4>1. \A q \in Procs : user[q].id = w => ~Crediting(q) /\ pc[q] \notin Online
          BY <1>0, <2>4, <3>1 DEF Crediting, Online
        <4> QED
          BY <1>2, <4>1 DEF Exact, OnFile
      <3> QED
        BY <3>1 DEF OnFile
    <2> QED
      BY <2>5, <2>6, <2>7, <2>8, <2>9 DEF Exact
  <1> QED
    BY <1>1, <1>3, <1>4

\* Three wrong passwords: the copy was that of the file.
LEMMA WrongExact ==
    ASSUME Typed, Typed', Exact, NEW p \in Sessions, WrongPassword(p)
    PROVE  Exact'
  <1>0. p \in Procs /\ pc[p] = "passwd" /\ pc'[p] = "leave"
    BY Sets DEF WrongPassword, Goto, Typed, TypeOK
  <1>1. UNCHANGED <<num, user, queue, target, db, earned>> /\ \A q \in Procs \ {p} : pc'[q] = pc[q]
    BY DEF WrongPassword, Goto, Typed, TypeOK
  <1>2. user[p].ul = earned[user[p].id] /\ db[user[p].id] = earned[user[p].id] /\ queue[p] = 0
    <2>1. queue[p] = 0
      BY <1>0, NothingWaits DEF Online
    <2>2. user[p].id \in Users /\ user[p].ul \in Nat
      BY <1>0 DEF Typed, TypeOK
    <2>3. \A q \in Procs : user[q].id = user[p].id => ~Crediting(q) /\ pc[q] \notin Online
      BY <1>0 DEF Exact, Apiece, Claiming, Crediting, Online
    <2>4. user[p].ul + queue[p] = earned[user[p].id]
      BY <1>0 DEF Exact, InSession, Claiming
    <2>5. db[user[p].id] = earned[user[p].id]
      BY <2>2, <2>3 DEF Exact, OnFile
    <2> QED
      BY <2>1, <2>2, <2>4, <2>5
  <1>3. Apiece' /\ Awaited' /\ InSession'
    BY <1>0, <1>1 DEF Exact, Apiece, Awaited, InSession, Claiming, Crediting, Online
  <1>4. InUpload'
    BY <1>0, <1>1 DEF Exact, InUpload, Apiece, Claiming, Crediting, Unclaimed
  <1>5. OnFile'
    BY <1>0, <1>1 DEF Exact, OnFile, Crediting, Online
  <1> QED
    BY <1>3, <1>4, <1>5 DEF Exact

\* A credit a process gives itself: a session to its own copy, an upload to
\* its own when no session has the user.
LEMMA CreditSelf ==
    ASSUME Typed, Typed', Exact, NEW p \in Procs, Credit(p), db' = db, queue' = queue,
           \/ Claiming(p) /\ pc[p] \in Online /\ pc'[p] = "in"
           \/ Crediting(p) /\ pc'[p] = "save" /\ Unclaimed(user[p].id),
           \A q \in Procs \ {p} : pc'[q] = pc[q] /\ target'[q] = target[q],
           num' = num
    PROVE  Exact'
  <1>0. PICK u \in Users : u = user[p].id
    BY DEF Typed, TypeOK, Claiming, Crediting
  <1>1. /\ user'[p].id = u /\ user'[p].ul = user[p].ul + 1
        /\ \A q \in Procs \ {p} : user'[q] = user[q]
        /\ earned'[u] = earned[u] + 1
        /\ \A w \in Users \ {u} : earned'[w] = earned[w]
    BY <1>0 DEF Credit, Typed, TypeOK
  <1>2. \A q \in Procs : queue[q] \in Nat /\ user[q].ul \in Nat
    BY BoundsAssumption DEF Typed, TypeOK
  <1>3. Apiece'
    BY <1>0, <1>1 DEF Exact, Apiece, Claiming, Crediting, Online
  <1>4. Awaited'
    BY <1>1 DEF Exact, Awaited, Online, Crediting, Claiming
  <1>5. InSession'
    <2>1. ASSUME NEW q \in Procs, Claiming(q)' PROVE user'[q].ul + queue'[q] = earned'[user'[q].id]
      <3>1. CASE q = p
        <4>1. user[p].ul + queue[p] = earned[u]
          BY <1>0, <2>1, <3>1 DEF Exact, InSession, Claiming, Crediting
        <4> QED
          BY <1>1, <1>2, <3>1, <4>1
      <3>2. CASE q # p
        <4>1. Claiming(q) /\ user[q].id # u
          BY <1>0, <2>1, <3>2 DEF Exact, Apiece, Claiming, Unclaimed, Crediting, Online
        <4>2. user[q].id \in Users
          BY <4>1 DEF Typed, TypeOK, Claiming
        <4> QED
          BY <1>1, <3>2, <4>1, <4>2 DEF Exact, InSession
      <3> QED
        BY <3>1, <3>2
    <2> QED
      BY <2>1 DEF InSession
  <1>6. InUpload'
    <2>1. ASSUME NEW q \in Procs, Crediting(q)', Unclaimed(user[q].id)'
          PROVE  user'[q].ul = earned'[user'[q].id]
      <3>1. CASE q = p
        <4>1. user[p].ul = earned[u]
          BY <1>0, <2>1, <3>1 DEF Exact, InUpload, Claiming, Crediting, Online
        <4> QED
          BY <1>1, <3>1, <4>1
      <3>2. CASE q # p
        <4>1. Crediting(q) /\ user[q].id # u
          BY <1>0, <1>1, <2>1, <3>2 DEF Exact, Apiece, Claiming, Unclaimed, Crediting, Online
        <4>2. user[q].id \in Users
          BY <4>1 DEF Typed, TypeOK, Crediting
        <4>3. Unclaimed(user[q].id)
          BY <1>0, <1>1, <2>1, <3>2, <4>1 DEF Unclaimed, Claiming
        <4> QED
          BY <1>1, <3>2, <4>1, <4>2, <4>3 DEF Exact, InUpload
      <3> QED
        BY <3>1, <3>2
    <2> QED
      BY <2>1 DEF InUpload, Unclaimed
  <1>7. OnFile'
    <2>1. ASSUME NEW w \in Users, (\A q \in Procs : user[q].id = w => ~Crediting(q) /\ pc[q] \notin Online)'
          PROVE  db'[w] = earned'[w]
      <3>1. w # u
        BY <1>0, <1>1, <2>1 DEF Crediting, Online
      <3>2. \A q \in Procs : user[q].id = w => ~Crediting(q) /\ pc[q] \notin Online
        BY <1>0, <1>1, <2>1, <3>1 DEF Crediting
      <3> QED
        BY <1>1, <2>1, <3>1, <3>2 DEF Exact, OnFile
    <2> QED
      BY <2>1 DEF OnFile
  <1> QED
    BY <1>3, <1>4, <1>5, <1>6, <1>7 DEF Exact

\* An upload is credited here, or on its way to the node that isonline finds.
LEMMA UploadExact ==
    ASSUME Credits, AllScanned, Typed', Exact, mishap = {}, NEW p \in Procs, NEW from \in {"in", "check"},
           Upload(p, from), (p \in Uploaders) <=> from = "check"
    PROVE  Exact'
  <1>0. pc[p] = from /\ UNCHANGED <<num, info, path, queue, db, mishap>> /\ Typed
    BY DEF Upload, Credits, Here
  <1>1. PICK u \in Users : u = user[p].id
    BY <1>0 DEF Typed, TypeOK
  <1>2. CASE Credit(p) /\ Goto(p, IF p \in Uploaders THEN "save" ELSE "in") /\ UNCHANGED target
             /\ {n \in isonline(user[p].id) : p \in Uploaders \/ n < num[p]} = {}
    <2>1. /\ pc'[p] = IF p \in Uploaders THEN "save" ELSE "in"
          /\ \A q \in Procs \ {p} : pc'[q] = pc[q] /\ target'[q] = target[q]
      BY <1>0, <1>2 DEF Goto, Typed, TypeOK
    <2>2. ASSUME p \in Uploaders PROVE Unclaimed(u)
      <3>1. NodesOf(u) = {}
        BY <1>1, <1>2, <2>2, FoundOnline
      <3>2. ASSUME NEW q \in Procs, Claiming(q), user[q].id = u PROVE FALSE
        <4>1. q # p /\ pc[q] # "passwd" /\ q \in Sessions
          BY <1>0, <1>1, <2>2, <3>2 DEF Exact, Apiece, Claiming, Crediting, Typed, Placed, Procs
        <4>2. info[num[q]] = Entry(q, u) /\ num[q] \in NodeNums
          BY <1>0, <3>2, <4>1, PresenceIs
             DEF Credits, Here, Present, Slot, Online, Typed, Numbered, Claiming
        <4> QED
          BY <3>1, <4>2, ServedFound DEF Entry
      <3> QED
        BY <3>2 DEF Unclaimed
    <2>3. \/ Claiming(p) /\ pc[p] \in Online /\ pc'[p] = "in"
          \/ Crediting(p) /\ pc'[p] = "save" /\ Unclaimed(user[p].id)
      BY <1>0, <1>1, <2>1, <2>2 DEF Claiming, Crediting, Online
    <2> QED
      BY <1>0, <1>2, <2>1, <2>3, CreditSelf, Zenon
  <1>3. ASSUME NEW n \in isonline(user[p].id), p \in Uploaders \/ n < num[p],
               target' = [target EXCEPT ![p] = n],
               Goto(p, IF p \in Uploaders THEN "post" ELSE "send"), UNCHANGED <<user, earned>>
        PROVE  Exact'
    <2>1. /\ pc'[p] = IF p \in Uploaders THEN "post" ELSE "send"
          /\ target'[p] = n
          /\ \A q \in Procs \ {p} : pc'[q] = pc[q] /\ target'[q] = target[q]
      BY <1>0, <1>3 DEF Goto, Typed, TypeOK
    <2>2. p \notin Uploaders => n # num[p]
      <3>1. n \in Nat
        BY <1>3, Sets DEF isonline, NodesOf, Having, Scanned
      <3>2. num[p] \in NodeNums \cup {0}
        BY <1>0 DEF Typed, TypeOK
      <3>3. p \notin Uploaders => n < num[p]
        BY <1>3, Zenon
      <3> QED
        BY <3>1, <3>2, <3>3, Sets
    <2>3. Same(p)
      BY <1>0, <1>3, <2>1 DEF Same
    <2>4. Quiet(p)
      BY <1>0, <1>3, <2>1, <2>2 DEF Quiet, Claiming, Crediting, Online
    <2>5. \A q \in Procs : Quiet(q)
      BY <1>0, <2>3, <2>4, SameQuiet
    <2> QED
      BY <1>0, <1>3, <2>5, QuietStep
  <1> QED
    BY <1>2, <1>3 DEF Upload

\* A credit that is sent is in the socket of the session that has the user.
LEMMA SendExact ==
    ASSUME Credits, AllScanned, Typed', Exact, mishap' = {}, NEW p \in Procs, SendCredit(p)
    PROVE  Exact'
  <1>0. PICK to : to = path[target[p]]
    OBVIOUS
  <1>1. /\ pc[p] \in {"send", "post"} /\ UNCHANGED <<num, info, path, db>>
        /\ to # Nil /\ queue[to] < Room /\ to \in Holders(user[p].id)
        /\ queue' = [queue EXCEPT ![to] = @ + 1]
        /\ Typed /\ target[p] \in NodeNums
    BY <1>0 DEF SendCredit, Under, Credits, Here, Typed, TypeOK
  <1>2. /\ to \in Sessions /\ to \in Procs /\ Claiming(to) /\ num[to] = target[p]
    BY <1>0, <1>1, Sets, ProcsAssumption
       DEF Typed, TypeOK, Credits, Paths, Holders, Placed, Claiming
  <1>3. PICK u \in Users : u = user[p].id /\ u = user[to].id
    BY <1>1, <1>2 DEF Typed, TypeOK, Holders
  <1>4. pc[p] = "post" /\ to # p /\ p \in Uploaders
    <2>1. CASE pc[p] = "send"
      <3>1. to # p
        BY <1>1, <1>2, <2>1 DEF Exact, Awaited
      <3> QED
        BY <1>2, <1>3, <2>1, <3>1 DEF Exact, Apiece, Claiming
    <2>2. CASE pc[p] = "post"
      BY <1>1, <1>2, <2>2, Sets, ProcsAssumption DEF Claiming, Typed, Placed, Procs
    <2> QED
      BY <1>1, <2>1, <2>2
  <1>5. /\ user'[p].id = u /\ pc'[p] = "save"
        /\ \A q \in Procs \ {p} : user'[q] = user[q] /\ pc'[q] = pc[q] /\ target'[q] = target[q]
        /\ earned'[u] = earned[u] + 1
        /\ \A w \in Users \ {u} : earned'[w] = earned[w]
        /\ queue'[to] = queue[to] + 1
        /\ \A q \in Procs \ {to} : queue'[q] = queue[q]
    <2>1. p \in Uploaders /\ user' = [user EXCEPT ![p].ul = @ + 1] /\ earned' = [earned EXCEPT ![u] = @ + 1]
          /\ pc' = [pc EXCEPT ![p] = "save"] /\ target' = [target EXCEPT ![p] = 0]
      BY <1>3, <1>4 DEF SendCredit, Credit, Goto
    <2>2. /\ user \in [Procs -> [id : Users \cup {Nobody}, ul : Nat]] /\ earned \in [Users -> Nat]
          /\ pc \in [Procs -> Stages] /\ target \in [Procs -> NodeNums \cup {0}]
          /\ queue \in [Procs -> 0 .. Room]
      BY <1>1 DEF Typed, TypeOK
    <2>3. user'[p].id = u /\ pc'[p] = "save"
      BY <1>3, <2>1, <2>2
    <2>4. \A q \in Procs \ {p} : user'[q] = user[q] /\ pc'[q] = pc[q] /\ target'[q] = target[q]
      BY <2>1, <2>2
    <2>5. earned'[u] = earned[u] + 1 /\ \A w \in Users \ {u} : earned'[w] = earned[w]
      BY <2>1, <2>2
    <2>6. queue'[to] = queue[to] + 1 /\ \A q \in Procs \ {to} : queue'[q] = queue[q]
      BY <1>1, <1>2, <2>2
    <2> QED
      BY <2>3, <2>4, <2>5, <2>6
  <1>6. pc[to] \in Online
    BY <1>2, <1>3, <1>4 DEF Exact, Apiece, Claiming, Crediting, Online
  <1>7. Apiece'
    <2>1. \A q \in Procs : /\ user'[q].id = user[q].id /\ Claiming(q)' = Claiming(q)
                           /\ Crediting(q)' = Crediting(q)
                           /\ pc'[q] = "passwd" => pc[q] = "passwd"
      <3>1. Claiming(p)' = Claiming(p) /\ Crediting(p)' = Crediting(p) /\ pc'[p] # "passwd"
        BY <1>4, <1>5 DEF Claiming, Crediting
      <3>2. \A q \in Procs \ {p} : Claiming(q)' = Claiming(q) /\ Crediting(q)' = Crediting(q)
        BY <1>5 DEF Claiming, Crediting
      <3> QED
        BY <1>3, <1>5, <3>1, <3>2
    <2> QED
      BY <2>1 DEF Exact, Apiece
  <1>8. Awaited'
    BY <1>1, <1>4, <1>5, <1>6 DEF Exact, Awaited, Online
  <1>9. InSession'
    <2>1. ASSUME NEW q \in Procs, Claiming(q)' PROVE user'[q].ul + queue'[q] = earned'[user'[q].id]
      <3>1. Claiming(q) /\ q # p
        BY <1>5, <2>1 DEF Claiming
      <3>2. user[q].ul + queue[q] = earned[user[q].id] /\ user[q].id \in Users
        BY <3>1 DEF Exact, InSession, Credits, Here, Typed, TypeOK, Claiming
      <3>3. CASE q = to
        <4>1. user[q].ul \in Nat /\ queue[q] \in Nat
          BY <1>1, BoundsAssumption DEF Typed, TypeOK
        <4> QED
          BY <1>3, <1>5, <3>1, <3>2, <3>3, <4>1
      <3>4. CASE q # to
        <4>1. user[q].id # u
          BY <1>2, <1>3, <3>1, <3>4 DEF Exact, Apiece
        <4> QED
          BY <1>5, <3>1, <3>2, <3>4, <4>1
      <3> QED
        BY <3>3, <3>4
    <2> QED
      BY <2>1 DEF InSession, Claiming
  <1>10. InUpload'
    <2>1. ASSUME NEW q \in Procs, Crediting(q)', Unclaimed(user[q].id)'
          PROVE  user'[q].ul = earned'[user'[q].id]
      <3>1. user'[q].id # u
        BY <1>2, <1>3, <1>4, <1>5, <2>1 DEF Unclaimed, Claiming
      <3>2. q # p /\ Crediting(q) /\ user'[q] = user[q]
        BY <1>5, <2>1, <3>1 DEF Crediting
      <3>3. Unclaimed(user[q].id)
        BY <1>4, <1>5, <2>1, <3>2 DEF Unclaimed, Claiming
      <3>4. user[q].id \in Users
        BY <1>1, <3>2 DEF Crediting, Typed, TypeOK
      <3> QED
        BY <1>5, <3>1, <3>2, <3>3, <3>4 DEF Exact, InUpload
    <2> QED
      BY <2>1 DEF InUpload, Unclaimed
  <1>11. OnFile'
    <2>1. ASSUME NEW w \in Users, (\A q \in Procs : user[q].id = w => ~Crediting(q) /\ pc[q] \notin Online)'
          PROVE  db'[w] = earned'[w]
      <3>1. w # u
        BY <1>5, <2>1 DEF Crediting
      <3>2. \A q \in Procs : user[q].id = w => ~Crediting(q) /\ pc[q] \notin Online
        BY <1>3, <1>5, <2>1, <3>1 DEF Crediting, Online
      <3> QED
        BY <1>1, <1>5, <3>1, <3>2 DEF Exact, OnFile
    <2> QED
      BY <2>1 DEF OnFile
  <1> QED
    BY <1>7, <1>8, <1>9, <1>10, <1>11 DEF Exact

\* A credit that is received goes from the socket to the copy.
LEMMA ReceiveExact ==
    ASSUME Typed, Typed', Exact, NEW p \in Sessions, ReceiveCredit(p)
    PROVE  Exact'
  <1>0. p \in Procs /\ queue[p] > 0 /\ pc[p] = "in" /\ Claiming(p) /\ user[p].id \in Users
    <2>1. p \in Procs /\ queue[p] > 0 /\ pc[p] \in {"login", "refuse", "passwd", "in"}
      BY Sets DEF ReceiveCredit
    <2>2. pc[p] = "in"
      BY <2>1 DEF Exact, Awaited, Online
    <2> QED
      BY <2>1, <2>2 DEF Claiming, Typed, TypeOK
  <1>1. UNCHANGED <<pc, num, info, path, target, db, earned>>
    BY DEF ReceiveCredit
  <1>2. /\ user'[p].id = user[p].id /\ user'[p].ul = user[p].ul + 1
        /\ queue'[p] = queue[p] - 1
        /\ \A q \in Procs \ {p} : user'[q] = user[q] /\ queue'[q] = queue[q]
    <2>1. user[p].id # Nobody /\ user' = [user EXCEPT ![p].ul = @ + 1]
      BY <1>0, UsersAssumption DEF ReceiveCredit
    <2>2. queue' = [queue EXCEPT ![p] = @ - 1]
      BY DEF ReceiveCredit
    <2> QED
      BY <1>0, <2>1, <2>2 DEF Typed, TypeOK
  <1>3. Apiece' /\ Awaited'
    BY <1>0, <1>1, <1>2 DEF Exact, Apiece, Awaited, Claiming, Crediting, Online
  <1>4. InSession'
    <2>1. user[p].ul \in Nat /\ queue[p] \in Nat
      BY <1>0, BoundsAssumption DEF Typed, TypeOK
    <2>2. user'[p].ul + queue'[p] = user[p].ul + queue[p]
      BY <1>2, <2>1
    <2> QED
      BY <1>0, <1>1, <1>2, <2>2 DEF Exact, InSession, Claiming
  <1>5. InUpload'
    BY <1>0, <1>1, <1>2 DEF Exact, InUpload, Unclaimed, Claiming, Crediting
  <1>6. OnFile'
    BY <1>0, <1>1, <1>2 DEF Exact, OnFile, Crediting, Online
  <1> QED
    BY <1>3, <1>4, <1>5, <1>6 DEF Exact

\* A save in a session leaves the session with the user.
LEMMA SaveExact ==
    ASSUME Typed, Typed', Exact, NEW p \in Sessions, SaveEdit(p)
    PROVE  Exact'
  <1>0. p \in Procs /\ pc[p] = "in" /\ UNCHANGED <<pc, num, user, info, path, queue, target, earned>>
    BY Sets DEF SaveEdit
  <1>1. \A w \in Users \ {user[p].id} : db'[w] = db[w]
    BY DEF SaveEdit, Typed, TypeOK
  <1>2. Apiece' /\ Awaited' /\ InSession' /\ InUpload'
    BY <1>0 DEF Exact, Apiece, Awaited, InSession, InUpload, Unclaimed, Claiming, Crediting, Online
  <1>3. OnFile'
    BY <1>0, <1>1 DEF Exact, OnFile, Crediting, Online
  <1> QED
    BY <1>2, <1>3 DEF Exact

\* The end of a session: all that was sent is in the copy, and no upload has
\* the user.
LEMMA LogoffExact ==
    ASSUME Typed, Typed', Exact, NEW p \in Sessions, Logoff(p), mishap' = {}
    PROVE  Exact'
  <1>0. /\ p \in Procs /\ pc[p] = "in" /\ pc'[p] = "leave" /\ user[p].id \in Users
        /\ UNCHANGED <<num, user, info, path, queue, target, earned>>
        /\ \A q \in Procs \ {p} : pc'[q] = pc[q]
        /\ db'[user[p].id] = user[p].ul /\ \A w \in Users \ {user[p].id} : db'[w] = db[w]
    BY Sets DEF Logoff, Goto, Typed, TypeOK
  <1>1. ~(queue[p] > 0) /\ ~ \E q \in Uploaders : q \in Holders(user[p].id)
    BY DEF Logoff, Under
  <1>2. db'[user[p].id] = earned[user[p].id] /\ queue[p] = 0
    <2>1. user[p].ul + queue[p] = earned[user[p].id]
      BY <1>0 DEF Exact, InSession, Claiming
    <2>2. queue[p] \in 0 .. Room /\ user[p].ul \in Nat
      BY <1>0 DEF Typed, TypeOK
    <2> QED
      BY <1>0, <1>1, <2>1, <2>2, BoundsAssumption
  <1>3. ASSUME NEW q \in Procs, Crediting(q) PROVE user[q].id # user[p].id
    <2>1. q \in Uploaders
      BY <1>3 DEF Crediting, Typed, Placed, Procs
    <2> QED
      BY <1>1, <1>3, <2>1, Sets DEF Holders, Crediting
  <1>4. Apiece' /\ InSession'
    BY <1>0 DEF Exact, Apiece, InSession, Claiming, Crediting
  <1>5. Awaited'
    BY <1>0, <1>2 DEF Exact, Awaited, Online
  <1>6. InUpload'
    BY <1>0, <1>3 DEF Exact, InUpload, Unclaimed, Claiming, Crediting
  <1>7. OnFile'
    BY <1>0, <1>2 DEF Exact, OnFile, Crediting, Online
  <1> QED
    BY <1>4, <1>5, <1>6, <1>7 DEF Exact

\* A record loaded for an upload is what was earned, or a session outlives it.
LEMMA LoadExact ==
    ASSUME Typed, Typed', Exact, NEW p \in Uploaders, LoadForUpload(p), mishap' = {}
    PROVE  Exact'
  <1>1. PICK u \in Users : /\ user' = [user EXCEPT ![p] = [id |-> u, ul |-> db[u]]]
                           /\ \A q \in Holders(u) : q \notin Uploaders /\ pc[q] # "passwd"
    BY DEF LoadForUpload, Under
  <1>2. /\ p \in Procs /\ pc[p] = "off" /\ pc'[p] = "check"
        /\ UNCHANGED <<num, queue, target, db, earned>>
        /\ user'[p].id = u /\ user'[p].ul = db[u]
        /\ \A q \in Procs \ {p} : pc'[q] = pc[q] /\ user'[q] = user[q]
    BY <1>1, Sets DEF LoadForUpload, Goto, Typed, TypeOK
  <1>3. ASSUME NEW q \in Procs, user[q].id = u PROVE ~Crediting(q) /\ pc[q] # "passwd"
    <2>1. Crediting(q) => q \in Uploaders
      BY DEF Crediting, Typed, Placed, Procs
    <2> QED
      BY <1>1, <1>3, <2>1 DEF Holders, Crediting
  <1>4. Apiece'
    BY <1>2, <1>3 DEF Exact, Apiece, Claiming, Crediting
  <1>5. Awaited'
    BY <1>2, NothingWaits DEF Exact, Awaited, Online
  <1>6. InSession'
    BY <1>2 DEF Exact, InSession, Claiming
  <1>7. InUpload'
    <2>1. ASSUME NEW q \in Procs, Crediting(q)', Unclaimed(user[q].id)'
          PROVE  user'[q].ul = earned'[user'[q].id]
      <3>1. CASE q = p
        <4>1. \A x \in Procs : user[x].id = u => ~Crediting(x) /\ pc[x] \notin Online
          BY <1>2, <1>3, <2>1, <3>1 DEF Unclaimed, Claiming, Online
        <4> QED
          BY <1>2, <3>1, <4>1 DEF Exact, OnFile
      <3>2. CASE q # p
        <4>1. Crediting(q) /\ Unclaimed(user[q].id)
          BY <1>2, <2>1, <3>2 DEF Crediting, Unclaimed, Claiming
        <4> QED
          BY <1>2, <3>2, <4>1 DEF Exact, InUpload
      <3> QED
        BY <3>1, <3>2
    <2> QED
      BY <2>1 DEF InUpload, Unclaimed
  <1>8. OnFile'
    BY <1>2 DEF Exact, OnFile, Crediting, Online
  <1> QED
    BY <1>4, <1>5, <1>6, <1>7, <1>8 DEF Exact

\* An upload's copy is what was earned, or the session's end will write over it.
LEMMA SaveUploadExact ==
    ASSUME Typed, Typed', Exact, NEW p \in Uploaders, SaveUpload(p)
    PROVE  Exact'
  <1>1. /\ p \in Procs /\ pc[p] = "save" /\ pc'[p] = "off" /\ Crediting(p) /\ user[p].id \in Users
        /\ UNCHANGED <<num, queue, target, earned>>
        /\ \A q \in Procs \ {p} : pc'[q] = pc[q] /\ user'[q] = user[q]
        /\ db'[user[p].id] = user[p].ul /\ \A w \in Users \ {user[p].id} : db'[w] = db[w]
    BY Sets DEF SaveUpload, Goto, Typed, TypeOK, Crediting
  <1>2. queue[p] = 0
    BY <1>1, NothingWaits DEF Online
  <1>3. Apiece' /\ InSession'
    BY <1>1 DEF Exact, Apiece, InSession, Claiming, Crediting
  <1>4. Awaited'
    BY <1>1, <1>2 DEF Exact, Awaited, Online
  <1>5. InUpload'
    <2>1. ASSUME NEW q \in Procs, Crediting(q)', Unclaimed(user[q].id)'
          PROVE  user'[q].ul = earned'[user'[q].id]
      <3>1. q # p /\ Crediting(q) /\ user'[q] = user[q] /\ Unclaimed(user[q].id)
        BY <1>1, <2>1 DEF Crediting, Unclaimed, Claiming
      <3> QED
        BY <1>1, <3>1 DEF Exact, InUpload
    <2> QED
      BY <2>1 DEF InUpload, Unclaimed
  <1>6. OnFile'
    <2>1. ASSUME NEW w \in Users, (\A q \in Procs : user[q].id = w => ~Crediting(q) /\ pc[q] \notin Online)'
          PROVE  db'[w] = earned'[w]
      <3>1. CASE w = user[p].id
        <4>1. \A q \in Procs : Claiming(q) => user[q].id # w
          <5>1. ASSUME NEW q \in Procs, Claiming(q), user[q].id = w PROVE FALSE
            <6>1. q # p /\ pc[q] # "passwd"
              BY <1>1, <3>1, <5>1 DEF Exact, Apiece, Claiming
            <6> QED
              BY <1>1, <2>1, <5>1, <6>1 DEF Claiming, Online
          <5> QED
            BY <5>1
        <4> QED
          BY <1>1, <3>1, <4>1 DEF Exact, InUpload, Unclaimed
      <3>2. CASE w # user[p].id
        BY <1>1, <2>1, <3>2 DEF Exact, OnFile, Crediting
      <3> QED
        BY <3>1, <3>2
    <2> QED
      BY <2>1 DEF OnFile
  <1> QED
    BY <1>3, <1>4, <1>5, <1>6 DEF Exact

\* A session's step credits each upload once,
LEMMA SessionExact ==
    ASSUME Credits, AllScanned, Typed', Exact, mishap = {}, mishap' = {}, NEW p \in Sessions, SessionNext(p)
    PROVE  Exact'
  <1>0. p \in Procs /\ p \notin Uploaders /\ Typed
    BY Sets, ProcsAssumption DEF Credits, Here
  <1>1. CASE CheckLogon(p)
    BY <1>0, <1>1, LogonExact
  <1>2. CASE WrongPassword(p)
    BY <1>0, <1>2, WrongExact
  <1>3. CASE Upload(p, "in")
    BY <1>0, <1>3, UploadExact
  <1>4. CASE SendCredit(p)
    BY <1>0, <1>4, SendExact
  <1>5. CASE ReceiveCredit(p)
    BY <1>0, <1>5, ReceiveExact
  <1>6. CASE SaveEdit(p)
    BY <1>0, <1>6, SaveExact
  <1>7. CASE Logoff(p)
    BY <1>0, <1>7, LogoffExact
  <1>8. CASE Refuse(p) \/ RightPassword(p) \/ ChangeNodeStatus(p)
    <2>1. /\ UNCHANGED <<num, user, queue, target, db, earned>>
          /\ \A q \in Procs \ {p} : pc'[q] = pc[q]
          /\ \/ pc[p] = "refuse" /\ pc'[p] \in {"leave", "login"}
             \/ pc[p] = "passwd" /\ pc'[p] = "in"
             \/ pc'[p] = pc[p]
      BY <1>0, <1>8 DEF Refuse, RightPassword, ChangeNodeStatus, Goto, Typed, TypeOK
    <2>2. Same(p) /\ Quiet(p)
      BY <1>0, <2>1 DEF Same, Quiet, Exact, Awaited, Claiming, Crediting, Online
    <2>3. \A q \in Procs : Quiet(q)
      BY <1>0, <2>2, SameQuiet
    <2> QED
      BY <1>0, <2>1, <2>3, QuietStep
  <1> QED
    BY <1>1, <1>2, <1>3, <1>4, <1>5, <1>6, <1>7, <1>8 DEF SessionNext

\* so does that of a process started for an upload,
LEMMA UploaderExact ==
    ASSUME Credits, AllScanned, Typed', Exact, mishap = {}, mishap' = {}, NEW p \in Uploaders, UploaderNext(p)
    PROVE  Exact'
  <1>0. p \in Procs /\ Typed
    BY Sets DEF Credits, Here
  <1>1. CASE LoadForUpload(p)
    BY <1>0, <1>1, LoadExact
  <1>2. CASE Upload(p, "check")
    BY <1>0, <1>2, UploadExact
  <1>3. CASE SendCredit(p)
    BY <1>0, <1>3, SendExact
  <1>4. CASE SaveUpload(p)
    BY <1>0, <1>4, SaveUploadExact
  <1>5. CASE RejectFile(p)
    <2>1. /\ UNCHANGED <<num, user, queue, target, db, earned>>
          /\ \A q \in Procs \ {p} : pc'[q] = pc[q]
          /\ pc[p] = "check" /\ pc'[p] = "save"
      BY <1>0, <1>5 DEF RejectFile, Goto, Typed, TypeOK
    <2>2. Same(p) /\ Quiet(p)
      BY <1>0, <2>1 DEF Same, Quiet, Claiming, Crediting, Online
    <2>3. \A q \in Procs : Quiet(q)
      BY <1>0, <2>2, SameQuiet
    <2> QED
      BY <1>0, <2>1, <2>3, QuietStep
  <1>6. CASE Kill(p)
    <2>1. user[p].id = Nobody
      BY <1>6 DEF Kill, Under
    <2>2. pc[p] \notin {"check", "post", "save"}
      BY <1>0, <2>1, UsersAssumption DEF Typed, TypeOK
    <2> QED
      BY <1>0, <1>6, <2>2 DEF Kill, Typed, Placed
  <1> QED
    BY <1>1, <1>2, <1>3, <1>4, <1>5, <1>6 DEF UploaderNext

\* and calls that come and go have no record in hand,
LEMMA CallerExact ==
    ASSUME Typed, Typed', Exact, mishap' = {}, NEW c \in Callers, CallerNext(c)
    PROVE  Exact'
  <1>0. c \in Procs /\ c \notin Uploaders /\ c \in Sessions
    BY Sets, ProcsAssumption
  <1>1. /\ Same(c) /\ db' = db /\ earned' = earned
        /\ pc[c] \notin {"passwd", "in", "send", "check", "post", "save"}
        /\ pc'[c] \notin {"passwd", "in", "send", "check", "post", "save"}
        /\ queue'[c] \in {0, queue[c]}
    <2> USE DEF Same, Goto, Typed, TypeOK
    <2>1. CASE StartCall(c)
      BY <1>0, <2>1 DEF StartCall
    <2>2. CASE LookForNode(c)
      <3>1. Same(c) /\ pc[c] = "look" /\ UNCHANGED <<user, info, path, queue, target, db, earned, mishap>>
        BY <1>0, <2>2 DEF LookForNode
      <3>2. pc'[c] \in {"look", "claim", "off"}
        BY <1>0, <2>2 DEF LookForNode
      <3> QED
        BY <3>1, <3>2
    <2>3. CASE ClaimNode(c)
      BY <1>0, <2>3 DEF ClaimNode
    <2>4. CASE BindSocket(c)
      BY <1>0, <2>4 DEF BindSocket
    <2>5. CASE HangUp(c)
      BY <1>0, <2>5 DEF HangUp, Forget
    <2>6. CASE Kill(c)
      <3>1. user[c].id = Nobody
        BY <2>6 DEF Kill, Under
      <3>2. pc[c] \notin {"passwd", "in", "send", "check", "post", "save"}
        BY <1>0, <3>1, UsersAssumption
      <3> QED
        BY <1>0, <2>6, <3>2 DEF Kill, Forget
    <2> QED
      BY <2>1, <2>2, <2>3, <2>4, <2>5, <2>6 DEF CallerNext
  <1>2. queue[c] = 0
    BY <1>0, <1>1, NothingWaits DEF Online
  <1>3. Quiet(c)
    BY <1>1, <1>2 DEF Quiet, Claiming, Crediting, Online
  <1>4. \A q \in Procs : Quiet(q)
    BY <1>0, <1>1, <1>3, SameQuiet
  <1> QED
    BY <1>1, <1>4, QuietStep

\* nor has a modem node between calls.
LEMMA ModemExact ==
    ASSUME Typed, Typed', Exact, NEW m \in Modems, ModemNext(m)
    PROVE  Exact'
  <1>1. /\ m \in Procs /\ Same(m) /\ db' = db /\ earned' = earned /\ queue' = queue
        /\ pc[m] \in {"wait", "leave"} /\ pc'[m] \in {"wait", "login"}
    BY Sets DEF ModemNext, AnswerModem, WaitForCall, Same, Goto, Typed, TypeOK
  <1>2. Quiet(m)
    BY <1>1 DEF Quiet, Claiming, Crediting, Online
  <1>3. \A q \in Procs : Quiet(q)
    BY <1>1, <1>2, SameQuiet
  <1> QED
    BY <1>1, <1>3, QuietStep

\* At first nobody has a record and nothing is earned.
LEMMA CreditsInit == Init => Credits
  <1> SUFFICES ASSUME Init PROVE Credits
    OBVIOUS
  <1>1. \A p \in Procs : pc[p] \in {"wait", "off"} /\ queue[p] = 0
    BY DEF Init
  <1>2. \A u \in Users : db[u] = 0 /\ earned[u] = 0
    BY DEF Init
  <1>3. Exact
    BY <1>1, <1>2 DEF Exact, Apiece, Awaited, InSession, InUpload, OnFile, Claiming, Crediting, Online
  <1> QED
    BY <1>3, InitHere, PathsInit DEF Credits

\* Every step keeps the sums, until a mishap.
LEMMA CreditsKept == Credits /\ [Next]_vars => Credits'
  <1> SUFFICES ASSUME Credits, [Next]_vars PROVE Credits'
    OBVIOUS
  <1>1. Here' /\ Paths'
    BY HereKept, PathsKept DEF Credits, Here
  <1>2. ASSUME AllScanned, mishap' = {} PROVE Exact'
    <2>1. CASE UNCHANGED vars
      <3>1. Exact /\ Typed /\ Typed'
        BY <1>1, <1>2, <2>1 DEF vars, Credits, Here
      <3>2. \A p \in Procs : Quiet(p)
        BY <2>1, <3>1 DEF vars, Quiet, Exact, Awaited, Claiming, Crediting, Online
      <3> QED
        BY <2>1, <3>1, <3>2, QuietStep DEF vars
    <2>2. CASE Next
      <3>1. mishap = {} /\ Exact /\ Typed /\ Typed'
        BY <1>1, <1>2, <2>2, MishapGrows DEF Credits, Here
      <3>2. ASSUME NEW c \in Callers, CallerNext(c) PROVE Exact'
        BY <1>2, <3>1, <3>2, CallerExact
      <3>3. ASSUME NEW m \in Modems, ModemNext(m) PROVE Exact'
        BY <3>1, <3>3, ModemExact
      <3>4. ASSUME NEW p \in Sessions, SessionNext(p) PROVE Exact'
        BY <1>2, <3>1, <3>4, SessionExact
      <3>5. ASSUME NEW p \in Uploaders, UploaderNext(p) PROVE Exact'
        BY <1>2, <3>1, <3>5, UploaderExact
      <3> QED
        BY <2>2, <3>2, <3>3, <3>4, <3>5, Steps
    <2> QED
      BY <2>1, <2>2
  <1> QED
    BY <1>1, <1>2 DEF Credits

\* Until a record is in two hands at once or a datagram is lost, every upload
\* is credited exactly once, whichever process it came to and whichever node
\* it is told to (addulbytes, sendtosock, saveuserbase).
THEOREM CreditsCorrect == Spec => []CreditExact
  <1>1. Credits => CreditExact
    <2> SUFFICES ASSUME Credits, AllScanned, mishap = {}, NEW u \in Users, Holders(u) = {}
                 PROVE  db[u] = earned[u]
      BY DEF CreditExact
    <2>1. \A p \in Procs : user[p].id = u => ~Crediting(p) /\ pc[p] \notin Online
      BY DEF Holders, Crediting, Online
    <2> QED
      BY <2>1 DEF Credits, Exact, OnFile
  <1> QED
    BY <1>1, CreditsInit, CreditsKept, PTL DEF Spec

-----------------------------------------------------------------------------
(***************************************************************************)
(* ZModem.  Until a refusal is taken for that of another file, the transfer *)
(* implements Transfer, and a sender that ends well has got its list       *)
(* across.  The receiver leads, so what matters is how far it is behind.   *)
(***************************************************************************)

L == link.list
Receiving == r.st \in {"head", "data", "eat"}
InJob     == s.job \in 1..Len(L)
Sending   == s.st \in {"head", "data", "sent", "sync", "ack", "eof"}

-----------------------------------------------------------------------------
(* Types.                                                                   *)

SubEnd == Sub(<<>>, "E")
Block(f, b) == << <<f, b>> >>
PacketsR ==
    {Hdr(t) : t \in {"ZRQINIT", "ZNAK", "ZFIN", "ZCOMMAND", "OO", "CAN", "BAD"}}
    \cup {ZFILE(f) : f \in Files}
    \cup {HdrAt(t, n) : t \in {"ZDATA", "ZEOF"}, n \in Nat}
    \cup {SubEnd} \cup {Sub(Block(f, b), e) : f \in Files, b \in Nat, e \in {"E", "G", "W"}}
PacketsS ==
    {Hdr(t) : t \in {"ZRINIT", "ZSKIP", "ZNAK", "ZFIN", "ZCOMPL", "CAN", "BAD"}}
    \cup {HdrAt(t, n) : t \in {"ZRPOS", "ZACK"}, n \in Nat}

SendersAt == [st : {"init", "file", "head", "data", "sent", "sync", "ack", "eof", "fin", "cmd",
                    "ok", "failed", "killed"},
              job : Nat, pos : Nat, fd : {"none", "open", "mapped"}, drain : BOOLEAN,
              tail : BOOLEAN, tries : Int, opened : BOOLEAN]
ReceiversAt == [st : {"try", "head", "data", "eat", "fin", "ok", "failed"}, hdr : {"ZRINIT"},
                file : Files \cup {NoFile}, name : Files \cup {NoFile}, pos : Nat,
                fd : {"none", "open", "bad", "closed"}, tries : Int]

ZTyped ==
    /\ link \in Links
    /\ s \in SendersAt /\ s.job <= Len(L) + 1
    /\ r \in ReceiversAt
    /\ toR \in Seq(PacketsR) /\ toS \in Seq(PacketsS)
    /\ held = [f \in Files |-> held[f]]
    /\ slog \in [Files -> 0..2] /\ rlog \in [Files -> 0..2]
    /\ whole \subseteq Files /\ declined \subseteq Files

-----------------------------------------------------------------------------
(* The invariant.                                                           *)

\* Where the sender is in its list and in the file.
Place ==
    /\ s.st = "init" => s.job = 0
    /\ s.st = "file" => InJob /\ Current \notin whole /\ slog[Current] = 0 /\ ~s.tail
    /\ Sending => /\ InJob /\ s.pos <= Size[Current]
                  /\ s.tail => s.pos = Size[Current]
                  /\ s.st \in {"head", "data", "ack"} => ~s.tail
                  /\ s.st \in {"sent", "eof"} => s.tail
    /\ s.st \in {"fin", "cmd", "ok"} => s.job = Len(L) + 1

\* Files the sender is past have arrived or were passed over; those to come were never sent.
Past ==
    /\ \A i \in 1..Len(L) : i < s.job => L[i] \in whole \/ (L[i] \in passed /\ slog[L[i]] = 0)
    /\ \A i \in 1..Len(L) : i > s.job => slog[L[i]] = 0 /\ L[i] \notin whole /\ L[i] \notin declined
    /\ \A f \in declined : Elsewhere(f) /\ (s.st \notin {"failed", "killed"} => slog[f] = 0)

\* What the receiver may be given for the file at hand by a sender in st.
FitsAs(st, m) ==
    /\ m.type = "ZFILE" => m.file = Current
    /\ m.type = "ZDATA" => st # "file" /\ m.pos <= Size[Current]
    /\ m.type = "ZEOF"  => st # "file" /\ m.pos = Size[Current]
    /\ m.type = "SUB" /\ m.blocks # <<>> =>
          st # "file" /\ \E b \in 1..Size[Current] : m.blocks = Block(Current, b)
Fits(m) == FitsAs(s.st, m)

\* From packet j on all is of the file at hand, and no offer comes behind its end.
FitsAfter(j) ==
    /\ \A k \in 1..Len(toR) : k > j => Fits(toR[k])
    /\ \A i, k \in 1..Len(toR) : j < i /\ i < k /\ toR[i].type = "ZEOF" => toR[k].type # "ZFILE"

\* What the receiver is at is the sender's file.
Hands ==
    /\ Receiving => /\ InJob /\ r.file = Current /\ Current \notin declined /\ Current \notin whole
                    /\ r.fd \in {"open", "bad"} /\ r.pos <= Size[r.file]
                    /\ r.fd = "open" => r.pos <= Len(held[r.file])
                    /\ FitsAfter(0)
    /\ ~Receiving => r.fd \in {"none", "closed"}

\* An offer on its way is of the sender's file, or will be refused.
Offers ==
    \A j \in 1..Len(toR) : toR[j].type = "ZFILE" =>
        \/ toR[j].file \in declined
        \/ InJob /\ toR[j].file = Current /\ Current \notin whole /\ FitsAfter(j)

\* Of the answers to a file the positions come first; a call for the next one means it is whole.
Replies ==
    /\ \A i \in 1..Len(toS) : toS[i].type = "ZRPOS" =>
          /\ InJob /\ Current \notin declined /\ toS[i].pos <= Size[Current]
          /\ r.st = "try" => Current \in whole
          /\ \A k \in 1..Len(toS) : i < k /\ toS[k].type = "ZRINIT" => Current \in whole
    /\ \A i, j, k \in 1..Len(toS) :
          i < j /\ j < k /\ toS[i].type = "ZRPOS" /\ toS[j].type = "ZRINIT" => toS[k].type # "ZRPOS"
    /\ Sending =>
          /\ Current \notin declined
          /\ r.st = "try" => Current \in whole
          /\ \A k \in 1..Len(toS) : toS[k].type = "ZRINIT" => Current \in whole
          /\ \A i, k \in 1..Len(toS) : i < k /\ toS[i].type = "ZRINIT" => toS[k].type # "ZRPOS"

\* The name in the receiver's log is that of the file at hand or of one logged before.
Names == r.st = "failed" \/ r.name = NoFile \/ rlog[r.name] > 0 \/ (Receiving /\ r.name = r.file)

Begun == \A f \in Files : \E n \in 0..Size[f] : held[f] = SubSeq(ZFile(f), 1, n)

\* Blocks of a frame follow each other from the position of its header on; only ZNAK, or
\* what is damaged, comes between.  y comes next to x.
Goes(x) == x.type = "ZDATA" \/ (x.type = "SUB" /\ x.end = "G")
Follows(x, y) ==
    /\ y.type \notin {"SUB", "ZNAK", "BAD", "CAN"} => ~Goes(x)
    /\ y.type = "SUB" /\ y.blocks # <<>> =>
          /\ x.type \in {"ZDATA", "SUB", "BAD", "ZNAK"}
          /\ x.type = "ZDATA" => y.blocks[1][2] = x.pos + 1
          /\ x.type = "SUB" => x.end = "G" /\ y.blocks[1][2] = x.blocks[1][2] + 1

\* A line q between what was taken last, a, and what will be sent next, z.
Ahead(q, a, z, i) == IF i = 0 THEN a ELSE IF i <= Len(q) THEN q[i] ELSE z
InOrder(q, a, z) ==
    \A i, k \in 0 .. Len(q) + 1 :
        i < k /\ (\A j \in 1..Len(q) : i < j /\ j < k => q[j].type = "ZNAK")
            => Follows(Ahead(q, a, z, i), Ahead(q, a, z, k))

InFrameAs(x) == x.st = "data" \/ (x.st = "sync" /\ ~x.tail)
InFrame == InFrameAs(s)
Taken == IF r.st = "data" THEN HdrAt("ZDATA", r.pos) ELSE Hdr("BAD")
Coming == IF InFrame THEN Sub(Block(Current, s.pos + 1), "G")
          ELSE IF Over(s) THEN Hdr("BAD") ELSE HdrAt("ZDATA", 0)
Frames == carrier => InOrder(toR, Taken, Coming)

\* A sender that cancels sends nothing more; without a carrier nothing is on its way.
Ends == /\ \A i \in 1..Len(toR) : toR[i].type = "CAN" => Over(s) /\ i = Len(toR)
        /\ ~carrier => toR = <<>> /\ toS = <<>>

Inv == ZTyped /\ Place /\ Past /\ Hands /\ Offers /\ Replies /\ Names /\ Begun /\ Frames /\ Ends
IInv == misled \/ Inv

-----------------------------------------------------------------------------
(* Lines in order.                                                          *)

LEMMA EmptyInOrder ==
    ASSUME NEW a, NEW z, Follows(a, z)
    PROVE  InOrder(<<>>, a, z)
  BY DEF InOrder, Ahead

\* What comes at the end asks less than was known of it.
LEMMA EndInOrder ==
    ASSUME NEW S, NEW q \in Seq(S), NEW a, NEW z, NEW y, InOrder(q, a, z),
           \A x : Follows(x, z) => Follows(x, y)
    PROVE  InOrder(q, a, y)
  <1> SUFFICES ASSUME NEW i \in 0 .. Len(q) + 1, NEW k \in 0 .. Len(q) + 1, i < k,
                      \A j \in 1..Len(q) : i < j /\ j < k => q[j].type = "ZNAK"
               PROVE  Follows(Ahead(q, a, y, i), Ahead(q, a, y, k))
    BY DEF InOrder
  <1>1. Follows(Ahead(q, a, z, i), Ahead(q, a, z, k))
    BY DEF InOrder
  <1>2. Ahead(q, a, z, i) = Ahead(q, a, y, i) /\ i <= Len(q)
    BY DEF Ahead
  <1>3. CASE k <= Len(q)
    BY <1>1, <1>2, <1>3 DEF Ahead
  <1>4. CASE k = Len(q) + 1
    <2>1. Ahead(q, a, z, k) = z /\ Ahead(q, a, y, k) = y
      BY <1>4 DEF Ahead
    <2> QED
      BY <1>1, <1>2, <2>1
  <1> QED
    BY <1>3, <1>4

\* A packet is added.
LEMMA AppendInOrder ==
    ASSUME NEW S, NEW q \in Seq(S), NEW a, NEW z, NEW y, NEW m \in S, InOrder(q, a, z),
           \A x : Follows(x, z) => Follows(x, m),
           m.type = "ZNAK" => \A x : Follows(x, z) => Follows(x, y),
           Follows(m, y)
    PROVE  InOrder(Append(q, m), a, y)
  <1> DEFINE b == Append(q, m)
  <1>1. /\ Len(b) = Len(q) + 1 /\ Len(q) \in Nat /\ b[Len(q) + 1] = m
        /\ \A j \in 1..Len(q) : b[j] = q[j]
    OBVIOUS
  <1> HIDE DEF b
  <1> SUFFICES ASSUME NEW i \in 0 .. Len(b) + 1, NEW k \in 0 .. Len(b) + 1, i < k,
                      \A j \in 1 .. Len(b) : i < j /\ j < k => b[j].type = "ZNAK"
               PROVE  Follows(Ahead(b, a, y, i), Ahead(b, a, y, k))
    BY DEF InOrder, b
  <1>2. CASE k <= Len(q) + 1
    <2>1. \A j \in 1..Len(q) : i < j /\ j < k => q[j].type = "ZNAK"
      BY <1>1
    <2>2. Follows(Ahead(q, a, z, i), Ahead(q, a, z, k))
      BY <1>1, <1>2, <2>1 DEF InOrder
    <2>3. Ahead(b, a, y, i) = Ahead(q, a, z, i)
      BY <1>1, <1>2 DEF Ahead
    <2>4. CASE k <= Len(q)
      <3>1. Ahead(b, a, y, k) = Ahead(q, a, z, k)
        BY <1>1, <2>4 DEF Ahead
      <3> QED
        BY <2>2, <2>3, <3>1
    <2>5. CASE k = Len(q) + 1
      <3>1. Ahead(b, a, y, k) = m /\ Ahead(q, a, z, k) = z
        BY <1>1, <2>5 DEF Ahead
      <3> QED
        BY <2>2, <2>3, <3>1
    <2> QED
      BY <1>1, <1>2, <2>4, <2>5
  <1>3. CASE k = Len(q) + 2 /\ i = Len(q) + 1
    <2>1. Ahead(b, a, y, k) = y /\ Ahead(b, a, y, i) = m
      BY <1>1, <1>3 DEF Ahead
    <2> QED
      BY <2>1
  <1>4. CASE k = Len(q) + 2 /\ i <= Len(q)
    <2>1. b[Len(q) + 1].type = "ZNAK" /\ \A j \in 1..Len(q) : i < j => q[j].type = "ZNAK"
      BY <1>1, <1>4
    <2>2. Follows(Ahead(q, a, z, i), Ahead(q, a, z, Len(q) + 1))
      BY <1>1, <1>4, <2>1 DEF InOrder
    <2>3. Ahead(q, a, z, Len(q) + 1) = z /\ Ahead(b, a, y, i) = Ahead(q, a, z, i) /\ Ahead(b, a, y, k) = y
      BY <1>1, <1>4 DEF Ahead
    <2> QED
      BY <1>1, <2>1, <2>2, <2>3
  <1> QED
    BY <1>1, <1>2, <1>3, <1>4

\* A line is cut and closed: the frame is over.
LEMMA CutInOrder ==
    ASSUME NEW S, NEW q \in Seq(S), NEW a, NEW z, NEW y, NEW n \in 0..Len(q), InOrder(q, a, z),
           Follows(SubEnd, y)
    PROVE  InOrder(SubSeq(q, 1, n) \o <<SubEnd>>, a, y)
  <1> DEFINE b == SubSeq(q, 1, n) \o <<SubEnd>>
  <1>1. /\ Len(b) = n + 1 /\ Len(q) \in Nat /\ n \in Nat /\ n <= Len(q) /\ b[n + 1] = SubEnd
        /\ \A j \in 1..n : b[j] = q[j]
    OBVIOUS
  <1> HIDE DEF b
  <1> SUFFICES InOrder(b, a, y)
    BY DEF b
  <1> SUFFICES ASSUME NEW i \in 0 .. Len(b) + 1, NEW k \in 0 .. Len(b) + 1, i < k,
                      \A j \in 1 .. Len(b) : i < j /\ j < k => b[j].type = "ZNAK"
               PROVE  Follows(Ahead(b, a, y, i), Ahead(b, a, y, k))
    BY DEF InOrder
  <1>2. CASE k <= n
    <2>1. \A j \in 1..Len(q) : i < j /\ j < k => q[j].type = "ZNAK"
      <3> SUFFICES ASSUME NEW j \in 1..Len(q), i < j, j < k PROVE q[j].type = "ZNAK"
        OBVIOUS
      <3>1. j \in 1..n /\ j \in 1..Len(b)
        BY <1>1, <1>2
      <3> QED
        BY <1>1, <3>1
    <2>2. Follows(Ahead(q, a, z, i), Ahead(q, a, z, k))
      BY <1>1, <1>2, <2>1 DEF InOrder
    <2>3. Ahead(b, a, y, i) = Ahead(q, a, z, i) /\ Ahead(b, a, y, k) = Ahead(q, a, z, k)
      <3>1. k \in 1..n /\ i \in 0..n /\ Len(b) >= n /\ Len(q) >= n
        BY <1>1, <1>2
      <3>2. Ahead(b, a, y, k) = b[k] /\ Ahead(q, a, z, k) = q[k] /\ b[k] = q[k]
        BY <1>1, <3>1 DEF Ahead
      <3>3. CASE i = 0
        BY <3>2, <3>3 DEF Ahead
      <3>4. CASE i \in 1..n
        <4>1. Ahead(b, a, y, i) = b[i] /\ Ahead(q, a, z, i) = q[i] /\ b[i] = q[i]
          BY <1>1, <3>1, <3>4 DEF Ahead
        <4> QED
          BY <3>2, <4>1
      <3> QED
        BY <3>1, <3>3, <3>4
    <2> QED
      BY <2>2, <2>3
  <1>3. CASE k = n + 1
    <2>1. Ahead(b, a, y, k) = SubEnd
      BY <1>1, <1>3 DEF Ahead
    <2> QED
      BY <2>1 DEF Follows, SubEnd, Sub
  <1>4. CASE k = n + 2 /\ i = n + 1
    <2>1. Ahead(b, a, y, k) = y /\ Ahead(b, a, y, i) = SubEnd
      BY <1>1, <1>4 DEF Ahead
    <2> QED
      BY <2>1
  <1>5. CASE k = n + 2 /\ i <= n
    BY <1>1, <1>5 DEF SubEnd, Sub
  <1> QED
    BY <1>1, <1>2, <1>3, <1>4, <1>5

\* The first packet is taken, by a receiver who knows as much as it says; or is a lost ZNAK.
LEMMA TailInOrder ==
    ASSUME NEW S, NEW q \in Seq(S), q # <<>>, NEW a, NEW z, NEW c, InOrder(q, a, z),
           \/ \A y : Follows(q[1], y) => Follows(c, y)
           \/ q[1].type = "ZNAK" /\ c = a
    PROVE  InOrder(Tail(q), c, z)
  <1> DEFINE b == Tail(q)
  <1>1. /\ Len(b) = Len(q) - 1 /\ Len(q) \in Nat /\ Len(q) > 0
        /\ \A j \in 1 .. Len(q) - 1 : b[j] = q[j + 1]
    OBVIOUS
  <1> HIDE DEF b
  <1> SUFFICES ASSUME NEW i \in 0..Len(q), NEW k \in 0..Len(q), i < k,
                      \A j \in 1 .. Len(q) - 1 : i < j /\ j < k => b[j].type = "ZNAK"
               PROVE  Follows(Ahead(b, c, z, i), Ahead(b, c, z, k))
    BY <1>1 DEF InOrder, b
  <1>2. \A j \in 1..Len(q) : i + 1 < j /\ j < k + 1 => q[j].type = "ZNAK"
    <2> SUFFICES ASSUME NEW j \in 1..Len(q), i + 1 < j, j < k + 1 PROVE q[j].type = "ZNAK"
      OBVIOUS
    <2>1. j - 1 \in 1 .. Len(q) - 1 /\ i < j - 1 /\ j - 1 < k /\ b[j - 1] = q[j]
      BY <1>1
    <2> QED
      BY <2>1
  <1>3. Follows(Ahead(q, a, z, i + 1), Ahead(q, a, z, k + 1))
    BY SMTT(30), <1>1, <1>2 DEF InOrder
  <1>4. Ahead(b, c, z, k) = Ahead(q, a, z, k + 1)
    BY <1>1 DEF Ahead
  <1>5. CASE i > 0
    <2>1. Ahead(b, c, z, i) = Ahead(q, a, z, i + 1)
      BY <1>1, <1>5 DEF Ahead
    <2> QED
      BY <1>3, <1>4, <2>1
  <1>6. CASE i = 0 /\ \A y : Follows(q[1], y) => Follows(c, y)
    <2>1. Ahead(b, c, z, i) = c /\ Ahead(q, a, z, i + 1) = q[1]
      BY <1>1, <1>6 DEF Ahead
    <2> QED
      BY <1>3, <1>4, <1>6, <2>1
  <1>7. CASE i = 0 /\ q[1].type = "ZNAK" /\ c = a
    <2>1. \A j \in 1..Len(q) : 0 < j /\ j < k + 1 => q[j].type = "ZNAK"
      BY <1>1, <1>2, <1>7
    <2>2. Follows(Ahead(q, a, z, 0), Ahead(q, a, z, k + 1))
      BY <1>1, <2>1 DEF InOrder
    <2>3. Ahead(b, c, z, i) = Ahead(q, a, z, 0)
      BY <1>1, <1>7 DEF Ahead
    <2> QED
      BY <1>4, <2>2, <2>3
  <1> QED
    BY <1>5, <1>6, <1>7

\* The receiver is out of the frame.
LEMMA OutOfFrame ==
    ASSUME NEW y PROVE Follows(Hdr("BAD"), y)
  BY DEF Follows, Goes, Hdr

LEMMA LeftInOrder ==
    ASSUME NEW S, NEW q \in Seq(S), NEW a, NEW z, InOrder(q, a, z)
    PROVE  InOrder(q, Hdr("BAD"), z)
  <1> SUFFICES ASSUME NEW i \in 0 .. Len(q) + 1, NEW k \in 0 .. Len(q) + 1, i < k,
                      \A j \in 1..Len(q) : i < j /\ j < k => q[j].type = "ZNAK"
               PROVE  Follows(Ahead(q, Hdr("BAD"), z, i), Ahead(q, Hdr("BAD"), z, k))
    BY DEF InOrder
  <1>1. CASE i = 0
    BY <1>1, OutOfFrame DEF Ahead
  <1>2. CASE i > 0
    <2>1. Follows(Ahead(q, a, z, i), Ahead(q, a, z, k))
      BY DEF InOrder
    <2>2. /\ Ahead(q, a, z, i) = Ahead(q, Hdr("BAD"), z, i)
          /\ Ahead(q, a, z, k) = Ahead(q, Hdr("BAD"), z, k)
      BY <1>2 DEF Ahead
    <2> QED
      BY <2>1, <2>2
  <1> QED
    BY <1>1, <1>2

\* The first packet is damaged.
LEMMA HurtInOrder ==
    ASSUME NEW S, NEW q \in Seq(S), q # <<>>, NEW a, NEW z, InOrder(q, a, z)
    PROVE  InOrder(<<Hdr("BAD")>> \o Tail(q), a, z)
  <1> DEFINE b == <<Hdr("BAD")>> \o Tail(q)
  <1>1. /\ Len(b) = Len(q) /\ Len(q) \in Nat /\ Len(q) > 0 /\ b[1] = Hdr("BAD")
        /\ \A j \in 2..Len(q) : b[j] = q[j]
    OBVIOUS
  <1> HIDE DEF b
  <1> SUFFICES ASSUME NEW i \in 0 .. Len(b) + 1, NEW k \in 0 .. Len(b) + 1, i < k,
                      \A j \in 1 .. Len(b) : i < j /\ j < k => b[j].type = "ZNAK"
               PROVE  Follows(Ahead(b, a, z, i), Ahead(b, a, z, k))
    BY DEF InOrder, b
  <1>2. CASE i = 0 /\ k = 1
    <2>1. Ahead(b, a, z, k) = Hdr("BAD")
      BY <1>1, <1>2 DEF Ahead
    <2> QED
      BY <2>1 DEF Follows, Hdr
  <1>3. CASE i = 0 /\ k > 1
    BY <1>1, <1>3 DEF Hdr
  <1>4. CASE i = 1
    <2>1. Ahead(b, a, z, i) = Hdr("BAD")
      BY <1>1, <1>4 DEF Ahead
    <2> QED
      BY <2>1, OutOfFrame
  <1>5. CASE i > 1
    <2>1. \A j \in 1..Len(q) : i < j /\ j < k => q[j].type = "ZNAK"
      BY <1>1, <1>5
    <2>2. Follows(Ahead(q, a, z, i), Ahead(q, a, z, k))
      <3>1. i \in 0 .. Len(q) + 1 /\ k \in 0 .. Len(q) + 1
        BY <1>1
      <3> QED
        BY <2>1, <3>1 DEF InOrder
    <2>3. Ahead(q, a, z, i) = Ahead(b, a, z, i) /\ Ahead(q, a, z, k) = Ahead(b, a, z, k)
      BY <1>1, <1>5 DEF Ahead
    <2> QED
      BY <2>2, <2>3
  <1> QED
    BY <1>2, <1>3, <1>4, <1>5
-----------------------------------------------------------------------------
(* Packets.                                                                 *)

LEMMA PacketTypes ==
    /\ \A t \in {"ZRQINIT", "ZNAK", "ZFIN", "ZCOMMAND", "OO", "CAN", "BAD"} : Hdr(t) \in PacketsR
    /\ \A f \in Files : ZFILE(f) \in PacketsR
    /\ \A n \in Nat : HdrAt("ZDATA", n) \in PacketsR /\ HdrAt("ZEOF", n) \in PacketsR
    /\ SubEnd \in PacketsR
    /\ \A f \in Files, b \in Nat, e \in {"E", "G", "W"} : Sub(Block(f, b), e) \in PacketsR
    /\ \A t \in {"ZRINIT", "ZSKIP", "ZNAK", "ZFIN", "ZCOMPL", "CAN", "BAD"} : Hdr(t) \in PacketsS
    /\ \A n \in Nat : HdrAt("ZRPOS", n) \in PacketsS /\ HdrAt("ZACK", n) \in PacketsS
  BY DEF PacketsR, PacketsS

LEMMA FieldsR ==
    ASSUME NEW m \in PacketsR
    PROVE  /\ m.type \in {"ZRQINIT", "ZNAK", "ZFIN", "ZCOMMAND", "OO", "CAN", "BAD", "ZFILE", "ZDATA", "ZEOF", "SUB"}
           /\ m.type = "ZFILE" => m.file \in Files
           /\ m.type \in {"ZDATA", "ZEOF"} => m.pos \in Nat
           /\ m.type = "ZDATA" => m = HdrAt("ZDATA", m.pos)
           /\ m.type = "SUB" => \/ m.blocks = <<>> /\ m.end = "E"
                                \/ /\ m.end \in {"E", "G", "W"}
                                   /\ \E f \in Files, b \in Nat : m.blocks = Block(f, b)
  BY DEF PacketsR, Hdr, HdrAt, ZFILE, Sub, SubEnd

LEMMA FieldsS ==
    ASSUME NEW m \in PacketsS
    PROVE  /\ m.type \in {"ZRINIT", "ZSKIP", "ZNAK", "ZFIN", "ZCOMPL", "CAN", "BAD", "ZRPOS", "ZACK"}
           /\ m.type \in {"ZRPOS", "ZACK"} => m.pos \in Nat
  BY DEF PacketsS, Hdr, HdrAt

LEMMA BlockFields ==
    ASSUME NEW f, NEW b
    PROVE  /\ Block(f, b) # <<>> /\ Len(Block(f, b)) = 1
           /\ Block(f, b)[1] = <<f, b>> /\ Block(f, b)[1][2] = b
  BY DEF Block

\* Lists, files and what is held of an earlier try.
LEMMA ListType ==
    ASSUME ZTyped
    PROVE  /\ L \in Seq(Files) /\ Len(L) \in Nat /\ DOMAIN L = 1..Len(L)
           /\ \A i \in 1..Len(L) : L[i] \in Files
           /\ \A i, j \in 1..Len(L) : L[i] = L[j] => i = j
           /\ InJob => Current \in Files /\ Size[Current] \in Nat \ {0}
           /\ s.job \in Nat
  <1>1. /\ L \in Seq(Files)
        /\ \A i, j \in DOMAIN L : L[i] = L[j] => i = j
    BY LinksAssumption DEF ZTyped, L
  <1>2. Len(L) \in Nat /\ DOMAIN L = 1..Len(L) /\ \A i \in 1..Len(L) : L[i] \in Files
    BY <1>1
  <1>3. InJob => Current \in Files
    BY <1>2 DEF InJob, Current, L
  <1>4. \A f \in Files : Size[f] \in Nat \ {0}
    BY ZSizeAssumption
  <1> QED
    BY <1>1, <1>2, <1>3, <1>4 DEF ZTyped, SendersAt

\* q is what is left of p: its end, where something may be damaged.
Behind(q, p) == \E d \in 0..Len(p) :
    /\ Len(q) = Len(p) - d
    /\ \A k \in 1..Len(q) : q[k] = p[k + d] \/ (q[k] = Hdr("BAD") /\ k = 1)

LEMMA BehindAt ==
    ASSUME NEW p, NEW q, NEW d \in 0..Len(p), Len(q) = Len(p) - d,
           \A k \in 1..Len(q) : q[k] = p[k + d] \/ (q[k] = Hdr("BAD") /\ k = 1)
    PROVE  Behind(q, p)
  BY DEF Behind

LEMMA LeftBehind ==
    ASSUME NEW S, NEW p \in Seq(S), NEW q, q \in {p, Tail(p), <<>>}, p = <<>> => q # Tail(p) \/ q = p
    PROVE  Behind(q, p) /\ q \in Seq(S)
  <1>0. Len(p) \in Nat
    OBVIOUS
  <1>1. CASE q = p
    <2>1. 0 \in 0..Len(p) /\ Len(q) = Len(p) - 0 /\ \A k \in 1..Len(q) : q[k] = p[k + 0]
      BY <1>0, <1>1
    <2> QED
      BY <1>1, <2>1, BehindAt
  <1>2. CASE q = Tail(p) /\ p # <<>>
    <2>1. Len(q) = Len(p) - 1 /\ 1 \in 0..Len(p) /\ \A k \in 1..Len(q) : q[k] = p[k + 1]
      BY <1>0, <1>2
    <2>2. Behind(q, p)
      BY <2>1, BehindAt
    <2> QED
      BY <1>2, <2>2
  <1>3. CASE q = <<>>
    <2>1. Len(q) = Len(p) - Len(p) /\ Len(p) \in 0..Len(p) /\ 1..Len(q) = {}
      BY <1>0, <1>3
    <2>2. Behind(q, p)
      BY <2>1, BehindAt
    <2> QED
      BY <1>3, <2>2
  <1> QED
    BY <1>1, <1>2, <1>3

LEMMA HurtBehind ==
    ASSUME NEW S, NEW p \in Seq(S), p # <<>>, NEW q \in Hurt(p), Hdr("BAD") \in S
    PROVE  Behind(q, p) /\ q \in Seq(S)
  <1>0. Len(p) \in Nat /\ Len(p) > 0
    OBVIOUS
  <1>1. CASE q = Tail(p)
    BY <1>1, LeftBehind
  <1>2. CASE q = <<Hdr("BAD")>> \o Tail(p)
    <2>1. /\ q \in Seq(S) /\ Len(q) = Len(p) - 0 /\ q[1] = Hdr("BAD")
          /\ \A k \in 1..Len(q) : k # 1 => q[k] = p[k + 0]
      BY <1>0, <1>2
    <2>2. Behind(q, p)
      BY <1>0, <2>1, BehindAt, 0 \in 0..Len(p)
    <2> QED
      BY <2>1, <2>2
  <1> QED
    BY <1>1, <1>2 DEF Hurt

-----------------------------------------------------------------------------
(* What a step of the sender puts on the line.                              *)

\* A step that leaves rest unread must have cut the line, or was not to.
Uncut(rest) == Between => rest = toS \/ Head(toS).type \in {"ZACK", "ZNAK", "BAD"}
Sent(rest, p) ==
    \/ toR' = <<>> /\ (~carrier \/ Over(r))
    \/ carrier /\ toR' = toR \o p /\ Uncut(rest)
    \/ /\ carrier /\ ~Uncut(rest)
       /\ \E n \in 0..Len(toR) : toR' = (SubSeq(toR, 1, n) \o <<SubEnd>>) \o p

LEMMA SendsEffect ==
    ASSUME NEW x, NEW rest, NEW p, Sends(x, rest, p), toS = <<>> => rest = toS
    PROVE  /\ Sent(rest, p) /\ (~carrier => toR' = <<>>)
           /\ s' = x /\ toS' = (IF Over(x) THEN <<>> ELSE rest)
           /\ UNCHANGED <<link, r, held, whole, rlog, declined, carrier>>
  <1>1. PICK q \in IF rest = toS THEN {toR} ELSE Out : toR' = Put(q, r, p)
    BY DEF Sends
  <1>2. ~carrier \/ Over(r) => toR' = <<>>
    BY <1>1 DEF Put
  <1>3. carrier /\ ~Over(r) => toR' = q \o p
    BY <1>1 DEF Put
  <1>4. \/ q = toR /\ Uncut(rest)
        \/ ~Uncut(rest) /\ \E n \in 0..Len(toR) : q = SubSeq(toR, 1, n) \o <<SubEnd>>
    <2>1. CASE rest = toS
      BY <1>1, <2>1 DEF Uncut
    <2>2. CASE rest # toS /\ Between /\ Head(toS).type \notin {"ZACK", "ZNAK", "BAD"}
      <3>1. q \in {SubSeq(toR, 1, n) \o <<Sub(<<>>, "E")>> : n \in 0..Len(toR)}
        BY <1>1, <2>2 DEF Out
      <3>2. ~Uncut(rest)
        BY <2>2 DEF Uncut
      <3> QED
        BY <3>1, <3>2 DEF SubEnd
    <2>3. CASE rest # toS /\ ~(Between /\ Head(toS).type \notin {"ZACK", "ZNAK", "BAD"})
      <3>1. q = toR
        BY <1>1, <2>3 DEF Out
      <3> QED
        BY <2>3, <3>1 DEF Uncut
    <2> QED
      BY <2>1, <2>2, <2>3
  <1>5. Sent(rest, p)
    BY <1>2, <1>3, <1>4 DEF Sent
  <1>6. s' = x /\ toS' = (IF Over(x) THEN <<>> ELSE rest)
    BY DEF Sends
  <1>7. UNCHANGED <<link, r, held, whole, rlog, declined, carrier>>
    BY DEF Sends, disk
  <1> QED
    BY <1>2, <1>5, <1>6, <1>7

\* What is on the way after a step of the sender: of what was there a first part, an
\* empty block, and the new packet.
LEMMA SentLine ==
    ASSUME ZTyped, NEW rest, NEW p, Sent(rest, p), p = <<>> \/ \E m \in PacketsR : p = <<m>>
    PROVE  /\ toR' \in Seq(PacketsR) /\ Len(toR') \in Nat
           /\ \E n \in 0..Len(toR) :
                 /\ \A k \in 1..Len(toR') : k <= n => toR'[k] = toR[k]
                 /\ \A k \in 1..Len(toR') :
                       k > n => toR'[k] = SubEnd \/ (k = Len(toR') /\ p = <<toR'[k]>>)
  <1>0. toR \in Seq(PacketsR) /\ SubEnd \in PacketsR /\ Len(toR) \in Nat
    BY PacketTypes DEF ZTyped
  <1> SUFFICES /\ toR' \in Seq(PacketsR)
               /\ \E n \in 0..Len(toR) :
                     /\ \A k \in 1..Len(toR') : k <= n => toR'[k] = toR[k]
                     /\ \A k \in 1..Len(toR') :
                           k > n => toR'[k] = SubEnd \/ (k = Len(toR') /\ p = <<toR'[k]>>)
    OBVIOUS
  <1>1. CASE toR' = <<>>
    BY <1>0, <1>1
  <1>2. CASE toR' = toR \o p
    <2>1. CASE p = <<>>
      <3>1. toR' = toR
        BY <1>0, <1>2, <2>1
      <3>2. Len(toR) \in 0..Len(toR) /\ \A k \in 1..Len(toR') : k <= Len(toR)
        BY <1>0, <3>1
      <3>3. \A k \in 1..Len(toR') : (k <= Len(toR) => toR'[k] = toR[k]) /\ ~(k > Len(toR))
        BY <1>0, <3>1
      <3> QED
        BY <1>0, <3>1, <3>2, <3>3
    <2>2. CASE \E m \in PacketsR : p = <<m>>
      <3>1. PICK m \in PacketsR : p = <<m>>
        BY <2>2
      <3>2. /\ toR' \in Seq(PacketsR) /\ Len(toR') = Len(toR) + 1 /\ toR'[Len(toR) + 1] = m
            /\ \A k \in 1..Len(toR) : toR'[k] = toR[k]
        BY <1>0, <1>2, <3>1
      <3>3. \A k \in 1..Len(toR') : k > Len(toR) => k = Len(toR')
        BY <1>0, <3>2
      <3>4. p = <<toR'[Len(toR')]>>
        BY <3>1, <3>2
      <3>5. Len(toR) \in 0..Len(toR) /\ \A k \in 1..Len(toR') : k <= Len(toR) => toR'[k] = toR[k]
        BY <1>0, <3>2
      <3>6. \A k \in 1..Len(toR') :
                k > Len(toR) => toR'[k] = SubEnd \/ (k = Len(toR') /\ p = <<toR'[k]>>)
        BY <3>3, <3>4
      <3> QED
        BY <3>2, <3>5, <3>6
    <2> QED
      BY <2>1, <2>2
  <1>3. CASE \E n \in 0..Len(toR) : toR' = (SubSeq(toR, 1, n) \o <<SubEnd>>) \o p
    <2>1. PICK n \in 0..Len(toR) : toR' = (SubSeq(toR, 1, n) \o <<SubEnd>>) \o p
      BY <1>3
    <2> DEFINE b == SubSeq(toR, 1, n) \o <<SubEnd>>
    <2>2. /\ b \in Seq(PacketsR) /\ Len(b) = n + 1 /\ b[n + 1] = SubEnd
          /\ \A k \in 1..n : b[k] = toR[k]
      BY <1>0
    <2>3. toR' = b \o p
      BY <2>1
    <2> HIDE DEF b
    <2>4. CASE p = <<>>
      <3>1. toR' = b
        BY <2>2, <2>3, <2>4
      <3> QED
        BY <1>0, <2>2, <3>1
    <2>5. CASE \E m \in PacketsR : p = <<m>>
      <3>1. PICK m \in PacketsR : p = <<m>>
        BY <2>5
      <3>2. /\ toR' \in Seq(PacketsR) /\ Len(toR') = n + 2 /\ toR'[n + 2] = m
            /\ \A k \in 1 .. n + 1 : toR'[k] = b[k]
        BY <1>0, <2>2, <2>3, <3>1
      <3>3. p = <<toR'[Len(toR')]>>
        BY <3>1, <3>2
      <3>4. \A k \in 1..Len(toR') : k > n => k = n + 1 \/ k = Len(toR')
        BY <1>0, <3>2
      <3>5. \A k \in 1..Len(toR') : k > n => toR'[k] = SubEnd \/ (k = Len(toR') /\ p = <<toR'[k]>>)
        BY <1>0, <2>2, <3>2, <3>3, <3>4
      <3>6. \A k \in 1..Len(toR') : k <= n => toR'[k] = toR[k]
        BY <1>0, <2>2, <3>2
      <3> QED
        BY <3>2, <3>5, <3>6
    <2> QED
      BY <2>4, <2>5
  <1> QED
    BY <1>1, <1>2, <1>3 DEF Sent

\* The blocks on the way stay in order.
LEMMA FramesSent ==
    ASSUME ZTyped, Frames, NEW rest, NEW p, Sent(rest, p), NEW z,
           p = <<>> \/ \E m \in PacketsR : p = <<m>>,
           p = <<>> => IF Uncut(rest) THEN \A x : Follows(x, Coming) => Follows(x, z)
                                      ELSE Follows(SubEnd, z),
           \A m : p = <<m>> =>
              /\ Follows(m, z)
              /\ IF Uncut(rest) THEN \A x : Follows(x, Coming) => /\ Follows(x, m)
                                                                  /\ m.type = "ZNAK" => Follows(x, z)
                                ELSE m.type \notin {"SUB", "ZNAK"}
    PROVE  carrier => InOrder(toR', Taken, z)
  <1> SUFFICES ASSUME carrier PROVE InOrder(toR', Taken, z)
    OBVIOUS
  <1>0. toR \in Seq(PacketsR) /\ InOrder(toR, Taken, Coming)
    BY DEF ZTyped, Frames
  <1>1. CASE toR' = <<>> /\ Over(r)
    <2>1. Taken = Hdr("BAD")
      BY <1>1 DEF Taken, Over
    <2>2. Follows(Taken, z)
      BY <2>1, OutOfFrame
    <2> QED
      BY <1>1, <2>2, EmptyInOrder
  <1>2. CASE toR' = toR \o p /\ Uncut(rest)
    <2>1. CASE p = <<>>
      <3>1. toR' = toR
        BY <1>0, <1>2, <2>1
      <3> QED
        BY <1>0, <1>2, <2>1, <3>1, EndInOrder
    <2>2. CASE \E m \in PacketsR : p = <<m>>
      <3>1. PICK m \in PacketsR : p = <<m>>
        BY <2>2
      <3>2. toR' = Append(toR, m)
        BY <1>0, <1>2, <3>1
      <3>3. /\ \A x : Follows(x, Coming) => Follows(x, m)
            /\ m.type = "ZNAK" => \A x : Follows(x, Coming) => Follows(x, z)
            /\ Follows(m, z)
        BY <1>2, <3>1
      <3>4. InOrder(Append(toR, m), Taken, z)
        BY <1>0, <3>3, AppendInOrder
      <3> QED
        BY <3>2, <3>4
    <2> QED
      BY <2>1, <2>2
  <1>3. CASE ~Uncut(rest) /\ \E n \in 0..Len(toR) : toR' = (SubSeq(toR, 1, n) \o <<SubEnd>>) \o p
    <2>1. PICK n \in 0..Len(toR) : toR' = (SubSeq(toR, 1, n) \o <<SubEnd>>) \o p
      BY <1>3
    <2> DEFINE b == SubSeq(toR, 1, n) \o <<SubEnd>>
    <2>2. b \in Seq(PacketsR)
      BY <1>0, PacketTypes
    <2>3. CASE p = <<>>
      <3>1. InOrder(b, Taken, z)
        BY <1>0, <1>3, <2>3, CutInOrder
      <3>2. toR' = b
        BY <2>1, <2>2, <2>3
      <3> QED
        BY <3>1, <3>2
    <2>4. CASE \E m \in PacketsR : p = <<m>>
      <3> DEFINE h == HdrAt("ZDATA", 0)
      <3>1. PICK m \in PacketsR : p = <<m>>
        BY <2>4
      <3>2. Follows(SubEnd, h)
        BY DEF Follows, Goes, SubEnd, Sub, HdrAt
      <3>3. InOrder(b, Taken, h)
        BY <1>0, <3>2, CutInOrder
      <3>4. m.type \notin {"SUB", "ZNAK"} /\ Follows(m, z)
        BY <1>3, <3>1
      <3>5. \A x : Follows(x, h) => Follows(x, m)
        BY <3>4 DEF Follows, HdrAt
      <3>6. toR' = Append(b, m)
        BY <2>1, <2>2, <3>1
      <3> HIDE DEF b, h
      <3>7. InOrder(Append(b, m), Taken, z)
        BY <2>2, <3>3, <3>4, <3>5, AppendInOrder
      <3> QED
        BY <3>6, <3>7
    <2> QED
      BY <2>3, <2>4
  <1> QED
    BY <1>1, <1>2, <1>3 DEF Sent

\* Lines that get shorter keep what is true of the answers.
LEMMA RepliesLeft ==
    ASSUME ZTyped, Replies, Behind(toS', toS), Current' = Current, InJob' <=> InJob, r' = r,
           UNCHANGED <<declined, whole>>,
           \/ Sending' => Sending
           \/ Hears("ZRPOS") /\ toS' = Tail(toS)
           \/ ~Sending'
    PROVE  Replies'
  <1>0. toS \in Seq(PacketsS) /\ Len(toS) \in Nat
    BY DEF ZTyped
  <1>1. PICK d \in 0..Len(toS) :
           /\ Len(toS') = Len(toS) - d
           /\ \A k \in 1..Len(toS') : toS'[k] = toS[k + d] \/ (toS'[k] = Hdr("BAD") /\ k = 1)
    BY DEF Behind
  <1>2. \A k \in 1..Len(toS') : toS'[k].type # "BAD" => k + d \in 1..Len(toS) /\ toS'[k] = toS[k + d]
    BY <1>0, <1>1 DEF Hdr
  <1>3. Len(toS') \in Nat
    BY <1>0, <1>1
  <1>4. \A i \in 1..Len(toS') : toS'[i].type = "ZRPOS" =>
          /\ InJob' /\ Current' \notin declined' /\ toS'[i].pos <= Size[Current']
          /\ r'.st = "try" => Current' \in whole'
          /\ \A k \in 1..Len(toS') : i < k /\ toS'[k].type = "ZRINIT" => Current' \in whole'
    <2> SUFFICES ASSUME NEW i \in 1..Len(toS'), toS'[i].type = "ZRPOS"
                 PROVE  /\ InJob /\ Current \notin declined /\ toS'[i].pos <= Size[Current]
                        /\ r.st = "try" => Current \in whole
                        /\ \A k \in 1..Len(toS') : i < k /\ toS'[k].type = "ZRINIT" => Current \in whole
      OBVIOUS
    <2>1. i + d \in 1..Len(toS) /\ toS'[i] = toS[i + d]
      BY <1>2
    <2>2. \A k \in 1..Len(toS') : i < k /\ toS'[k].type = "ZRINIT" => Current \in whole
      BY <1>0, <1>1, <1>2, <2>1 DEF Replies
    <2> QED
      BY <2>1, <2>2 DEF Replies
  <1>5. \A i, j, k \in 1..Len(toS') :
          i < j /\ j < k /\ toS'[i].type = "ZRPOS" /\ toS'[j].type = "ZRINIT" => toS'[k].type # "ZRPOS"
    <2> SUFFICES ASSUME NEW i \in 1..Len(toS'), NEW j \in 1..Len(toS'), NEW k \in 1..Len(toS'), i < j, j < k,
                        toS'[i].type = "ZRPOS", toS'[j].type = "ZRINIT", toS'[k].type = "ZRPOS"
                 PROVE  FALSE
      OBVIOUS
    <2>1. i + d < j + d /\ j + d < k + d
      BY <1>1, <1>3
    <2> QED
      BY <1>2, <2>1 DEF Replies
  <1>6. Sending' =>
          /\ Current' \notin declined'
          /\ r'.st = "try" => Current' \in whole'
          /\ \A k \in 1..Len(toS') : toS'[k].type = "ZRINIT" => Current' \in whole'
          /\ \A i, k \in 1..Len(toS') : i < k /\ toS'[i].type = "ZRINIT" => toS'[k].type # "ZRPOS"
    <2> SUFFICES ASSUME Sending'
                 PROVE  /\ Current \notin declined
                        /\ r.st = "try" => Current \in whole
                        /\ \A k \in 1..Len(toS') : toS'[k].type = "ZRINIT" => Current \in whole
                        /\ \A i, k \in 1..Len(toS') : i < k /\ toS'[i].type = "ZRINIT" => toS'[k].type # "ZRPOS"
      OBVIOUS
    <2>1. CASE Sending
      <3>1. \A k \in 1..Len(toS') : toS'[k].type = "ZRINIT" => Current \in whole
        BY <1>2, <2>1 DEF Replies
      <3>2. ASSUME NEW i \in 1..Len(toS'), NEW k \in 1..Len(toS'), i < k, toS'[i].type = "ZRINIT",
                   toS'[k].type = "ZRPOS"
            PROVE  FALSE
        <4>1. i + d < k + d
          BY <1>1, <1>3, <3>2
        <4> QED
          BY <1>2, <2>1, <3>2, <4>1 DEF Replies
      <3> QED
        BY <2>1, <3>1, <3>2 DEF Replies
    <2>2. CASE Hears("ZRPOS") /\ toS' = Tail(toS)
      <3>1. /\ 1 \in 1..Len(toS) /\ toS[1].type = "ZRPOS" /\ Len(toS') = Len(toS) - 1
            /\ \A k \in 1..Len(toS') : toS'[k] = toS[k + 1] /\ k + 1 \in 1..Len(toS) /\ 1 < k + 1
        BY <1>0, <2>2 DEF Hears, Silent
      <3>2. \A k \in 1..Len(toS') : toS'[k].type = "ZRINIT" => Current \in whole
        BY <3>1 DEF Replies
      <3>3. ASSUME NEW i \in 1..Len(toS'), NEW k \in 1..Len(toS'), i < k, toS'[i].type = "ZRINIT",
                   toS'[k].type = "ZRPOS"
            PROVE  FALSE
        <4>1. i + 1 < k + 1
          BY <1>3, <3>3
        <4> QED
          BY <3>1, <3>3, <4>1 DEF Replies
      <3> QED
        BY <3>1, <3>2, <3>3 DEF Replies
    <2> QED
      BY <2>1, <2>2
  <1> QED
    BY <1>4, <1>5, <1>6 DEF Replies

\* A step of the sender within a file, or one that ends it.
LEMMA SenderKept ==
    ASSUME Inv, ~Over(s), NEW x \in SendersAt, NEW rest, NEW p, Sends(x, rest, p),
           rest \in {toS, Tail(toS), <<>>}, toS = <<>> => rest = toS,
           x.job = s.job, x.st = "file" => s.st = "file",
           p = <<>> \/ \E m \in PacketsR : p = <<m>>,
           \A m : p = <<m>> => /\ FitsAs(x.st, m)
                               /\ m.type = "ZFILE" => s.st = "file"
                               /\ m.type = "CAN" => Over(x),
           UNCHANGED passed, slog' = slog \/ (s.st = "sent" /\ LogSent),
           Place', Frames',
           \/ Sending' => Sending
           \/ Hears("ZRPOS") /\ rest = Tail(toS)
    PROVE  Inv' /\ UNCHANGED <<held, whole, rlog>>
  <1>1. /\ Sent(rest, p) /\ (~carrier => toR' = <<>>)
        /\ s' = x /\ toS' = (IF Over(x) THEN <<>> ELSE rest)
        /\ UNCHANGED <<link, r, held, whole, rlog, declined, carrier>>
    BY SendsEffect
  <1>2. ZTyped
    BY DEF Inv
  <1>3. /\ L' = L /\ Current' = Current /\ (InJob' <=> InJob) /\ (Receiving' <=> Receiving)
        /\ \A m : Fits(m)' <=> FitsAs(x.st, m)
        /\ \A m : Elsewhere(m)' <=> Elsewhere(m)
    BY <1>1 DEF L, Current, InJob, Receiving, Fits, FitsAs, Elsewhere
  <1>4. \A m : Fits(m) => FitsAs(x.st, m)
    BY DEF Fits, FitsAs
  <1>5. FitsAs(x.st, SubEnd)
    BY DEF FitsAs, SubEnd, Sub
  <1>6. PICK n \in 0..Len(toR) :
           /\ toR' \in Seq(PacketsR) /\ Len(toR') \in Nat
           /\ \A k \in 1..Len(toR') : k <= n => toR'[k] = toR[k]
           /\ \A k \in 1..Len(toR') :
                 k > n => toR'[k] = SubEnd \/ (k = Len(toR') /\ p = <<toR'[k]>>)
    BY <1>1, <1>2, SentLine
  <1>7. toR \in Seq(PacketsR) /\ Len(toR) \in Nat /\ n \in Nat /\ n <= Len(toR)
    BY <1>2 DEF ZTyped
  <1>8. Behind(rest, toS) /\ rest \in Seq(PacketsS)
    <2>1. toS \in Seq(PacketsS) /\ (toS = <<>> => rest # Tail(toS) \/ rest = toS)
      BY <1>2 DEF ZTyped
    <2> QED
      BY <2>1, LeftBehind
  <1>9. Behind(toS', toS) /\ toS' \in Seq(PacketsS)
    <2>1. toS \in Seq(PacketsS)
      BY <1>2 DEF ZTyped
    <2>2. Behind(<<>>, toS)
      BY <2>1, LeftBehind
    <2> QED
      BY <1>1, <1>8, <2>2
  <1>10. slog' \in [Files -> 0..2]
    BY <1>2 DEF ZTyped, LogSent, ZLeast
  <1>11. ZTyped'
    BY <1>1, <1>2, <1>3, <1>6, <1>9, <1>10 DEF ZTyped
  <1>12. \A k \in 1..Len(toR') : k <= n => k \in 1..Len(toR) /\ toR'[k] = toR[k]
    BY <1>6, <1>7
  <1>13. \A j \in 0..n : FitsAfter(j) => FitsAfter(j)'
    <2> SUFFICES ASSUME NEW j \in 0..n, FitsAfter(j)
                 PROVE  FitsAfter(j)'
      OBVIOUS
    <2>1. ASSUME NEW k \in 1..Len(toR'), k > j PROVE FitsAs(x.st, toR'[k])
      <3>1. CASE k <= n
        BY <1>4, <1>12, <2>1, <3>1 DEF FitsAfter
      <3>2. CASE k > n
        BY <1>5, <1>6, <3>2
      <3> QED
        BY <1>6, <1>7, <3>1, <3>2
    <2>2. ASSUME NEW i \in 1..Len(toR'), NEW k \in 1..Len(toR'), j < i, i < k,
                 toR'[i].type = "ZEOF", toR'[k].type = "ZFILE"
          PROVE  FALSE
      <3>1. CASE k <= n
        <4>1. i \in 1..Len(toR) /\ toR'[i] = toR[i] /\ k \in 1..Len(toR) /\ toR'[k] = toR[k]
          BY <1>6, <1>7, <1>12, <2>2, <3>1
        <4> QED
          BY <2>2, <4>1 DEF FitsAfter
      <3>2. CASE k > n
        <4>1. toR'[k] # SubEnd
          BY <2>2 DEF SubEnd, Sub
        <4>2. k = Len(toR') /\ p = <<toR'[k]>> /\ s.st = "file"
          BY <1>6, <2>2, <3>2, <4>1
        <4>3. toR'[i] # SubEnd /\ i < Len(toR')
          BY <1>6, <2>2, <4>2 DEF SubEnd, Sub
        <4>4. i <= n
          BY <1>6, <1>7, <4>3
        <4>5. i \in 1..Len(toR) /\ toR[i].type = "ZEOF"
          BY <1>12, <2>2, <4>4
        <4> QED
          BY <2>2, <4>2, <4>5 DEF FitsAfter, Fits, FitsAs
      <3> QED
        BY <1>6, <1>7, <3>1, <3>2
    <2> QED
      BY <1>3, <2>1, <2>2 DEF FitsAfter
  <1>14. Past'
    <2>1. /\ L \in Seq(Files) /\ Len(L) \in Nat /\ DOMAIN L = 1..Len(L) /\ s.job \in Nat
          /\ \A i \in 1..Len(L) : L[i] \in Files
          /\ \A i, j \in 1..Len(L) : L[i] = L[j] => i = j
      BY <1>2, ListType
    <2>2. s.st = "sent" => InJob /\ Current = L[s.job] /\ Current \notin declined
      BY DEF Inv, Place, Replies, Sending, Current, L
    <2>3. \A i \in 1..Len(L) : i # s.job => slog'[L[i]] = slog[L[i]]
      BY <1>2, <2>1, <2>2 DEF LogSent, ZTyped, InJob
    <2>4. \A f \in declined : slog'[f] = slog[f]
      BY <1>2, <2>2 DEF LogSent, ZTyped
    <2>5. \A i \in 1..Len(L) : i < s.job => L[i] \in whole \/ (L[i] \in passed /\ slog'[L[i]] = 0)
      BY <2>1, <2>3 DEF Inv, Past
    <2>6. \A i \in 1..Len(L) : i > s.job => slog'[L[i]] = 0 /\ L[i] \notin whole /\ L[i] \notin declined
      BY <2>1, <2>3 DEF Inv, Past
    <2>7. \A f \in declined : Elsewhere(f) /\ (x.st \notin {"failed", "killed"} => slog'[f] = 0)
      BY <2>4 DEF Inv, Past, Over
    <2> QED
      BY <1>1, <1>3, <2>5, <2>6, <2>7 DEF Past
  <1>15. Hands'
    <2>1. Receiving => FitsAfter(0)'
      BY <1>7, <1>13 DEF Inv, Hands
    <2> QED
      BY <1>1, <1>3, <2>1 DEF Inv, Hands
  <1>16. Offers'
    <2> SUFFICES ASSUME NEW j \in 1..Len(toR'), toR'[j].type = "ZFILE"
                 PROVE  \/ toR'[j].file \in declined
                        \/ InJob /\ toR'[j].file = Current /\ Current \notin whole /\ FitsAfter(j)'
      BY <1>1, <1>3 DEF Offers
    <2>1. CASE j <= n
      <3>1. j \in 1..Len(toR) /\ toR'[j] = toR[j]
        BY <1>12, <2>1
      <3>2. j \in 0..n
        BY <1>6, <2>1
      <3> QED
        BY <1>13, <3>1, <3>2 DEF Inv, Offers
    <2>2. CASE j > n
      <3>1. toR'[j] # SubEnd
        BY DEF SubEnd, Sub
      <3>2. j = Len(toR') /\ p = <<toR'[j]>> /\ s.st = "file" /\ FitsAs(x.st, toR'[j])
        BY <1>6, <2>2, <3>1
      <3>3. FitsAfter(j)'
        BY <1>6, <3>2 DEF FitsAfter
      <3> QED
        BY <3>2, <3>3 DEF Inv, Place, FitsAs
    <2> QED
      BY <1>6, <1>7, <2>1, <2>2
  <1>17. Replies'
    <2>1. \/ Sending' => Sending
          \/ Hears("ZRPOS") /\ toS' = Tail(toS)
          \/ ~Sending'
      BY <1>1 DEF Sending, Over
    <2> QED
      BY <1>1, <1>2, <1>3, <1>9, <2>1, RepliesLeft DEF Inv
  <1>18. Names' /\ Begun'
    <2>1. Names'
      BY <1>1, <1>3 DEF Inv, Names
    <2>2. Begun'
      BY <1>1 DEF Inv, Begun, ZFile
    <2> QED
      BY <2>1, <2>2
  <1>19. Ends'
    <2>1. ASSUME NEW i \in 1..Len(toR'), toR'[i].type = "CAN" PROVE Over(x) /\ i = Len(toR')
      <3>1. i > n
        BY <1>6, <1>7, <1>12, <2>1 DEF Inv, Ends
      <3>2. toR'[i] # SubEnd
        BY <2>1 DEF SubEnd, Sub
      <3> QED
        BY <1>6, <2>1, <3>1, <3>2
    <2>2. ~carrier => toR' = <<>> /\ toS' = <<>>
      BY <1>1 DEF Inv, Ends
    <2> QED
      BY <1>1, <2>1, <2>2 DEF Ends, Over
  <1> QED
    BY <1>1, <1>11, <1>14, <1>15, <1>16, <1>17, <1>18, <1>19 DEF Inv

\* The sender goes on to the next file: the one before has arrived or is declined.
LEMMA GoOnKept ==
    ASSUME Inv, ~Over(s), NEW refused, GoOn(refused), NoLog, ~misled',
           \/ Hears("ZRINIT") /\ refused = {} /\ (s.st = "init" \/ Sending)
           \/ Hears("ZSKIP") /\ refused = {Current} /\ (s.st = "file" \/ Sending)
    PROVE  Inv' /\ UNCHANGED <<held, whole, rlog>>
  <1>1. PICK k \in NextFile(s.job + 1) :
           /\ Sends(Offered(s, k), Tail(toS), Offer(k))
           /\ passed' = passed \cup refused \cup {L[i] : i \in s.job + 1 .. k - 1}
           /\ refused \subseteq declined
    BY DEF GoOn, L
  <1> DEFINE x == Offered(s, k)
  <1>2. /\ toS # <<>> /\ toS \in Seq(PacketsS) /\ Len(toS) \in Nat /\ 1 \in 1..Len(toS) /\ toS[1] = Head(toS)
        /\ Head(toS).type \in {"ZRINIT", "ZSKIP"}
    BY DEF Hears, Silent, Inv, ZTyped
  <1>3. /\ Sent(Tail(toS), Offer(k)) /\ (~carrier => toR' = <<>>)
        /\ s' = x /\ toS' = (IF Over(x) THEN <<>> ELSE Tail(toS))
        /\ UNCHANGED <<link, r, held, whole, rlog, declined, carrier, slog>>
    BY <1>1, <1>2, SendsEffect DEF NoLog
  <1>4. ZTyped /\ Place /\ Past /\ Hands /\ Offers /\ Replies /\ Names /\ Begun /\ Frames /\ Ends
    BY DEF Inv
  <1>5. /\ L \in Seq(Files) /\ Len(L) \in Nat /\ DOMAIN L = 1..Len(L) /\ s.job \in Nat
        /\ \A i \in 1..Len(L) : L[i] \in Files
        /\ \A i, j \in 1..Len(L) : L[i] = L[j] => i = j
    BY <1>4, ListType
  <1>6. k \in s.job + 1 .. Len(L) + 1 /\ k \in Nat
    <2>1. s.job + 1 \in Nat /\ s.job + 1 .. Len(link.list) + 1 \subseteq Nat
      BY <1>5 DEF L
    <2> QED
      BY <1>1, <2>1 DEF NextFile, L
  <1>7. /\ x \in SendersAt /\ x.job = k /\ ~Over(x)
        /\ x.st = IF k <= Len(L) THEN "file" ELSE IF s.opened THEN "fin" ELSE "cmd"
        /\ k <= Len(L) => ~x.tail
    <2>1. s \in SendersAt /\ Tries.call \in Int
      BY <1>4, TriesAssumption DEF ZTyped
    <2> QED
      BY <1>6, <2>1 DEF Offered, SendersAt, Over, L
  <1>8. /\ L' = L /\ (Receiving' <=> Receiving) /\ ~Sending' /\ (InJob' <=> k \in 1..Len(L))
        /\ Current' = L[k] /\ Coming' = HdrAt("ZDATA", 0) /\ Taken' = Taken
        /\ \A m : Elsewhere(m)' <=> Elsewhere(m)
    <2>1. Coming' = HdrAt("ZDATA", 0)
      BY <1>3, <1>7 DEF Coming, InFrame, InFrameAs, Over
    <2> HIDE DEF x
    <2> QED
      BY <1>3, <1>7, <2>1 DEF L, Receiving, Sending, InJob, Current, Elsewhere, Taken
  <1> HIDE DEF x
  <1>9. Offer(k) = <<>> \/ \E m \in PacketsR : Offer(k) = <<m>>
    <2>1. k <= Len(L) => L[k] \in Files
      BY <1>5, <1>6
    <2> QED
      BY <2>1, PacketTypes DEF Offer, L
  <1>10. \A m : Offer(k) = <<m>> =>
            /\ m.type \in {"ZFILE", "ZFIN", "ZCOMMAND"}
            /\ m.type = "ZFILE" => k <= Len(L) /\ m.file = L[k]
    <2>1. CASE k <= Len(L)
      BY <2>1 DEF Offer, ZFILE, L
    <2>2. CASE ~(k <= Len(L))
      BY <2>2 DEF Offer, Hdr, L
    <2> QED
      BY <2>1, <2>2
  <1>11. PICK n \in 0..Len(toR) :
           /\ toR' \in Seq(PacketsR) /\ Len(toR') \in Nat
           /\ \A i \in 1..Len(toR') : i <= n => toR'[i] = toR[i]
           /\ \A i \in 1..Len(toR') :
                 i > n => toR'[i] = SubEnd \/ (i = Len(toR') /\ Offer(k) = <<toR'[i]>>)
    BY <1>3, <1>4, <1>9, SentLine
  <1>12. toR \in Seq(PacketsR) /\ Len(toR) \in Nat /\ n \in Nat /\ n <= Len(toR)
    BY <1>4 DEF ZTyped
  <1>13. \A i \in 1..Len(toR') : i <= n => i \in 1..Len(toR) /\ toR'[i] = toR[i]
    BY <1>11, <1>12
  \* What is left behind.
  <1>14. InJob => Current \in whole \/ (Current \in declined /\ Current \in passed' /\ slog[Current] = 0)
    <2>1. CASE Hears("ZRINIT") /\ s.st = "init"
      BY <1>4, <2>1 DEF Place, InJob
    <2>2. CASE Hears("ZRINIT") /\ Sending
      BY <1>2, <1>4, <2>2 DEF Replies, Hears
    <2>3. CASE Hears("ZSKIP") /\ refused = {Current}
      <3>1. Current \in declined /\ Current \in passed'
        BY <1>1, <2>3
      <3>2. s.st \notin {"failed", "killed"}
        BY DEF Over
      <3> QED
        BY <1>4, <3>1, <3>2 DEF Past
    <2> QED
      BY <2>1, <2>2, <2>3
  <1>15. ~Receiving
    BY <1>4, <1>14 DEF Hands
  <1>16. \A i \in 2..Len(toS) : toS[i].type # "ZRPOS"
    <2> SUFFICES ASSUME NEW i \in 2..Len(toS), toS[i].type = "ZRPOS" PROVE FALSE
      OBVIOUS
    <2>1. i \in 1..Len(toS) /\ InJob /\ Current \notin declined
      BY <1>2, <1>4 DEF Replies
    <2>2. CASE Hears("ZRINIT") /\ s.st = "init"
      BY <1>4, <2>1, <2>2 DEF Place, InJob
    <2>3. CASE Hears("ZRINIT") /\ Sending
      <3>1. toS[1].type = "ZRINIT" /\ 1 < i
        BY <1>2, <2>3 DEF Hears
      <3> QED
        BY <1>2, <1>4, <2>1, <2>3, <3>1 DEF Replies
    <2>4. CASE Hears("ZSKIP") /\ refused = {Current}
      BY <1>1, <2>1, <2>4
    <2> QED
      BY <2>2, <2>3, <2>4
  <1>17. \A j \in 1..Len(toR) : toR[j].type = "ZFILE" => toR[j].file \in declined
    BY <1>4, <1>14 DEF Offers
  <1>18. toS' = Tail(toS) /\ toS' \in Seq(PacketsS) /\ \A i \in 1..Len(toS') : toS'[i].type # "ZRPOS"
    <2>1. toS' = Tail(toS)
      BY <1>3, <1>7
    <2>2. \A i \in 1..Len(toS') : i + 1 \in 2..Len(toS) /\ toS'[i] = toS[i + 1]
      BY <1>2, <2>1
    <2> QED
      BY <1>2, <1>16, <2>1, <2>2
  <1>19. ZTyped'
    BY SMTT(30), <1>3, <1>4, <1>6, <1>7, <1>8, <1>11, <1>18 DEF ZTyped
  <1>20. Place'
    <2>1. k <= Len(L) => k \in 1..Len(L) /\ slog[L[k]] = 0 /\ L[k] \notin whole
      BY <1>4, <1>5, <1>6 DEF Past
    <2>2. ~(k <= Len(L)) => k = Len(L) + 1
      BY <1>5, <1>6
    <2> QED
      BY <1>3, <1>7, <1>8, <2>1, <2>2 DEF Place, Over
  <1>21. Past'
    <2>1. ASSUME NEW i \in 1..Len(L), i < k PROVE L[i] \in whole \/ (L[i] \in passed' /\ slog[L[i]] = 0)
      <3>1. CASE i < s.job
        BY <1>1, <1>4, <3>1 DEF Past
      <3>2. CASE i = s.job
        BY <1>14, <3>2 DEF InJob, Current, L
      <3>3. CASE i > s.job
        <4>1. i \in s.job + 1 .. k - 1
          BY <1>5, <1>6, <2>1, <3>3
        <4> QED
          BY <1>1, <1>4, <3>3, <4>1 DEF Past
      <3> QED
        BY <1>5, <3>1, <3>2, <3>3
    <2>2. \A i \in 1..Len(L) : i > k => slog[L[i]] = 0 /\ L[i] \notin whole /\ L[i] \notin declined
      BY <1>4, <1>5, <1>6 DEF Past
    <2>3. \A f \in declined : Elsewhere(f) /\ slog[f] = 0
      BY <1>4 DEF Past, Over
    <2> QED
      BY <1>3, <1>7, <1>8, <2>1, <2>2, <2>3 DEF Past
  <1>22. Hands'
    BY <1>3, <1>4, <1>8, <1>15 DEF Hands
  <1>23. Offers'
    <2> SUFFICES ASSUME NEW j \in 1..Len(toR'), toR'[j].type = "ZFILE"
                 PROVE  \/ toR'[j].file \in declined
                        \/ k \in 1..Len(L) /\ toR'[j].file = L[k] /\ L[k] \notin whole /\ FitsAfter(j)'
      BY <1>3, <1>8 DEF Offers
    <2>1. CASE j <= n
      BY <1>13, <1>17, <2>1
    <2>2. CASE j > n
      <3>1. toR'[j] # SubEnd
        BY DEF SubEnd, Sub
      <3>2. j = Len(toR') /\ Offer(k) = <<toR'[j]>>
        BY <1>11, <2>2, <3>1
      <3>3. FitsAfter(j)'
        BY <1>11, <3>2 DEF FitsAfter
      <3>4. k <= Len(L) /\ toR'[j].file = L[k]
        BY <1>10, <3>2
      <3>5. k \in 1..Len(L) /\ L[k] \notin whole
        BY <1>4, <1>5, <1>6, <3>4 DEF Past
      <3> QED
        BY <3>3, <3>4, <3>5
    <2> QED
      BY <1>11, <1>12, <2>1, <2>2
  <1>24. Replies'
    BY <1>8, <1>18 DEF Replies
  <1>25. Names' /\ Begun'
    <2>1. Names'
      BY <1>3, <1>4, <1>8 DEF Names
    <2>2. Begun'
      BY <1>3, <1>4 DEF Begun, ZFile
    <2> QED
      BY <2>1, <2>2
  <1>26. Frames'
    <2> DEFINE z == HdrAt("ZDATA", 0)
    <2>1. Offer(k) # <<>>
      BY DEF Offer
    <2>2. ASSUME NEW m, Offer(k) = <<m>>
          PROVE  /\ Follows(m, z)
                 /\ IF Uncut(Tail(toS)) THEN \A y : Follows(y, Coming) => /\ Follows(y, m)
                                                                          /\ m.type = "ZNAK" => Follows(y, z)
                                        ELSE m.type \notin {"SUB", "ZNAK"}
      <3>1. m.type \in {"ZFILE", "ZFIN", "ZCOMMAND"}
        BY <1>10, <2>2
      <3>2. Follows(m, z)
        BY <3>1 DEF Follows, Goes, HdrAt
      <3>3. Uncut(Tail(toS)) => Coming = z
        <4>1. Tail(toS) # toS
          BY <1>2
        <4> QED
          BY <1>2, <4>1 DEF Uncut, Between, Coming, InFrame, InFrameAs
      <3>4. \A y : Follows(y, z) => Follows(y, m)
        BY <3>1 DEF Follows, HdrAt
      <3> QED
        BY <3>1, <3>2, <3>3, <3>4
    <2> HIDE DEF z
    <2>3. carrier => InOrder(toR', Taken, z)
      BY <1>3, <1>4, <1>9, <2>1, <2>2, FramesSent
    <2> QED
      BY <1>3, <1>8, <2>3 DEF Frames, z
  <1>27. Ends'
    <2>1. ASSUME NEW i \in 1..Len(toR'), toR'[i].type = "CAN" PROVE FALSE
      <3>1. CASE i <= n
        BY <1>4, <1>13, <2>1, <3>1 DEF Ends
      <3>2. CASE i > n
        BY <1>10, <1>11, <2>1, <3>2 DEF SubEnd, Sub
      <3> QED
        BY <1>11, <1>12, <3>1, <3>2
    <2> QED
      BY <1>2, <1>3, <1>4, <2>1 DEF Ends
  <1> QED
    BY <1>3, <1>19, <1>20, <1>21, <1>22, <1>23, <1>24, <1>25, <1>26, <1>27 DEF Inv

\* What a sender that stays in its job leaves alone.
LEMMA SameJob ==
    ASSUME NEW x, NEW rest, NEW p, Sends(x, rest, p), toS = <<>> => rest = toS, x.job = s.job
    PROVE  /\ s' = x /\ whole' = whole /\ L' = L /\ Current' = Current /\ (InJob' <=> InJob)
           /\ r' = r /\ carrier' = carrier /\ Taken' = Taken
           /\ Coming' = IF InFrameAs(x) THEN Sub(Block(Current, x.pos + 1), "G")
                        ELSE IF Over(x) THEN Hdr("BAD") ELSE HdrAt("ZDATA", 0)
  <1>1. s' = x /\ UNCHANGED <<link, r, whole, carrier>>
    BY SendsEffect
  <1> QED
    BY <1>1 DEF L, Current, InJob, Taken, Coming, InFrame

\* A step of the sender that adds no block and no header of one.
LEMMA SenderQuiet ==
    ASSUME Inv, ~Over(s), NEW x \in SendersAt, NEW rest, NEW p, Sends(x, rest, p),
           rest \in {toS, Tail(toS), <<>>}, toS = <<>> => rest = toS,
           x.job = s.job, x.st = "file" => s.st = "file",
           p = <<>> \/ \E m \in PacketsR : p = <<m>>,
           \A m : p = <<m>> => /\ FitsAs(x.st, m)
                               /\ m.type = "ZFILE" => s.st = "file"
                               /\ m.type = "CAN" => Over(x)
                               /\ m.type \notin {"SUB", "ZDATA"}
                               /\ m.type = "ZNAK" => Uncut(rest),
           UNCHANGED passed, slog' = slog \/ (s.st = "sent" /\ LogSent),
           Place',
           \/ Sending' => Sending
           \/ Hears("ZRPOS") /\ rest = Tail(toS),
           \/ Over(x) /\ \A m : p = <<m>> => m.type = "CAN"
           \/ ~InFrame /\ ~InFrameAs(x)
           \/ ~Uncut(rest) /\ ~InFrameAs(x)
           \/ /\ Uncut(rest) /\ InFrame /\ InFrameAs(x) /\ x.pos = s.pos
              /\ \A m : p = <<m>> => m.type = "ZNAK"
    PROVE  Inv' /\ UNCHANGED <<held, whole, rlog>>
  <1>1. ZTyped /\ Frames
    BY DEF Inv
  <1>2. /\ carrier' = carrier /\ Taken' = Taken
        /\ Coming' = IF InFrameAs(x) THEN Sub(Block(Current, x.pos + 1), "G")
                     ELSE IF Over(x) THEN Hdr("BAD") ELSE HdrAt("ZDATA", 0)
    BY SameJob
  <1>3. Sent(rest, p)
    BY SendsEffect
  <1>4. Coming = IF InFrame THEN Sub(Block(Current, s.pos + 1), "G") ELSE HdrAt("ZDATA", 0)
    BY DEF Coming
  <1>5. Over(x) => ~InFrameAs(x)
    BY DEF Over, InFrameAs
  <1> DEFINE z == IF InFrameAs(x) THEN Sub(Block(Current, x.pos + 1), "G")
                  ELSE IF Over(x) THEN Hdr("BAD") ELSE HdrAt("ZDATA", 0)
  <1>6. ~InFrameAs(x) => \A y : Follows(y, HdrAt("ZDATA", 0)) => Follows(y, z)
    BY DEF Follows, HdrAt, Hdr
  <1>7. Over(x) => \A y : Follows(y, z)
    BY <1>5 DEF Follows, Hdr
  <1>8. ~InFrameAs(x) => Follows(SubEnd, z)
    BY DEF Follows, HdrAt, Hdr, Goes, SubEnd, Sub
  <1>9. InFrame /\ InFrameAs(x) /\ x.pos = s.pos => Coming = z
    BY <1>4
  <1>10. \A m : p = <<m>> => Follows(m, z)
    <2> SUFFICES ASSUME NEW m, p = <<m>> PROVE Follows(m, z)
      OBVIOUS
    <2>1. m.type \notin {"SUB", "ZDATA"}
      OBVIOUS
    <2>2. ~InFrameAs(x) => z.type \notin {"SUB"}
      BY DEF HdrAt, Hdr
    <2>3. InFrameAs(x) => m.type = "ZNAK" /\ z.type = "SUB"
      BY <1>5 DEF Sub
    <2> HIDE DEF z
    <2> QED
      BY <2>1, <2>2, <2>3 DEF Follows, Goes
  <1>11. ~InFrame => Coming = HdrAt("ZDATA", 0)
    BY <1>4
  <1> HIDE DEF z
  <1>12. Uncut(rest) => \A y : Follows(y, Coming) => Follows(y, z)
    BY <1>6, <1>7, <1>9, <1>11
  <1>13. p = <<>> => IF Uncut(rest) THEN \A y : Follows(y, Coming) => Follows(y, z)
                                    ELSE Follows(SubEnd, z)
    BY <1>5, <1>8, <1>12
  <1>14. ASSUME NEW m, p = <<m>>
         PROVE  /\ Follows(m, z)
                /\ IF Uncut(rest) THEN \A y : Follows(y, Coming) => /\ Follows(y, m)
                                                                    /\ m.type = "ZNAK" => Follows(y, z)
                                  ELSE m.type \notin {"SUB", "ZNAK"}
    <2>1. m.type \in {"CAN", "ZNAK"} => \A y : Follows(y, m)
      BY DEF Follows
    <2>2. \A y : Follows(y, HdrAt("ZDATA", 0)) => Follows(y, m)
      BY <1>14 DEF Follows, HdrAt
    <2>3. Uncut(rest) => \A y : Follows(y, Coming) => Follows(y, m)
      BY <1>11, <1>14, <2>1, <2>2
    <2> QED
      BY <1>10, <1>12, <1>14, <2>3
  <1>15. carrier => InOrder(toR', Taken, z)
    BY <1>1, <1>3, <1>13, <1>14, FramesSent
  <1>16. Frames'
    BY <1>2, <1>15 DEF Frames, z
  <1> QED
    BY <1>16, SenderKept

\* The sender gives up.
LEMMA FailsKept ==
    ASSUME Inv, ~Over(s), NEW rest, Fails(rest), rest \in {toS, Tail(toS)}, toS = <<>> => rest = toS,
           UNCHANGED passed
    PROVE  Inv' /\ UNCHANGED <<held, whole, rlog>>
  <1> DEFINE x == Failed(s)
             p == <<Hdr("CAN")>>
  <1>1. Sends(x, rest, p) /\ slog' = slog
    BY DEF Fails, NoLog
  <1>2. x \in SendersAt /\ x.job = s.job /\ x.st = "failed" /\ Over(x)
    BY DEF Inv, ZTyped, SendersAt, Failed, Over
  <1>3. \E m \in PacketsR : p = <<m>>
    BY PacketTypes
  <1>4. \A m : p = <<m>> => m.type = "CAN" /\ FitsAs(x.st, m)
    BY DEF Hdr, FitsAs
  <1> HIDE DEF x, p
  <1>5. s' = x
    BY <1>1, SendsEffect
  <1>6. Place' /\ ~Sending'
    BY <1>2, <1>5 DEF Place, Sending
  <1> QED
    BY <1>1, <1>2, <1>3, <1>4, <1>6, SenderQuiet

LEMMA SenderAlive ==
    ASSUME Inv, Sender
    PROVE  ~Over(s)
  <1>1. s.st \notin {"ok", "failed", "killed"}
    BY DEF Sender, SendInit, SendFile, SendHead, SendData, SendEof, InSync, Between, SendFin, SendCommand,
           SendCancelled, SendTimeout, Over
  <1> QED
    BY <1>1 DEF Over

LEMMA SendInitKept ==
    ASSUME Inv, SendInit, ~misled'
    PROVE  Inv' /\ UNCHANGED <<held, whole, rlog>>
  <1>1. s.st = "init" /\ ~Over(s) /\ NoLog
    BY DEF SendInit, Over
  <1>2. CASE Initialised
    BY <1>1, <1>2, GoOnKept DEF Initialised
  <1>3. CASE ~Silent /\ Keep /\ s.tries = 1 /\ Fails(Tail(toS))
    BY <1>1, <1>3, FailsKept DEF Silent, Keep
  <1>4. CASE ~Silent /\ Keep /\ Sends([s EXCEPT !.tries = @ - 1], Tail(toS), <<Hdr("ZNAK")>>)
    <2> DEFINE x == [s EXCEPT !.tries = @ - 1]
               p == <<Hdr("ZNAK")>>
    <2>1. x \in SendersAt /\ x.job = s.job /\ x.st = "init" /\ ~InFrame /\ ~InFrameAs(x)
      BY <1>1 DEF Inv, ZTyped, SendersAt, InFrame, InFrameAs
    <2>2. \E m \in PacketsR : p = <<m>>
      BY PacketTypes
    <2>3. \A m : p = <<m>> => m.type = "ZNAK" /\ FitsAs(x.st, m)
      BY DEF Hdr, FitsAs
    <2> HIDE DEF x, p
    <2>4. s' = x /\ toS # <<>>
      BY <1>4, SendsEffect DEF x, p, Silent
    <2>5. Place' /\ ~Sending'
      BY <1>1, <2>1, <2>4 DEF Inv, Place, Sending
    <2>6. Uncut(Tail(toS))
      BY <1>1 DEF Uncut, Between
    <2> QED
      BY <1>1, <1>4, <2>1, <2>2, <2>3, <2>4, <2>5, <2>6, SenderQuiet DEF x, p, NoLog, Keep
  <1> QED
    BY <1>2, <1>3, <1>4 DEF SendInit

LEMMA SendFileKept ==
    ASSUME Inv, SendFile, ~misled'
    PROVE  Inv' /\ UNCHANGED <<held, whole, rlog>>
  <1>1. s.st = "file" /\ ~Over(s) /\ NoLog /\ ~InFrame /\ ~Between
    BY DEF SendFile, Over, InFrame, InFrameAs, Between
  <1>2. InJob /\ Current \notin whole /\ slog[Current] = 0 /\ ~s.tail /\ Current \in Files /\ s \in SendersAt
    BY <1>1, ListType DEF Inv, Place, ZTyped
  <1>3. CASE Hears("ZRINIT") /\ Sends([s EXCEPT !.drain = TRUE], Tail(toS), <<>>) /\ Keep
    <2> DEFINE x == [s EXCEPT !.drain = TRUE]
    <2>1. x \in SendersAt /\ x.job = s.job /\ x.st = "file" /\ ~InFrameAs(x) /\ ~x.tail
      BY <1>1, <1>2 DEF SendersAt, InFrameAs
    <2> HIDE DEF x
    <2>2. s' = x /\ whole' = whole /\ L' = L /\ Current' = Current /\ (InJob' <=> InJob) /\ toS # <<>>
      BY <1>3, <2>1, SameJob DEF x, Hears, Silent
    <2>3. Place' /\ ~Sending'
      BY <1>1, <1>2, <2>1, <2>2 DEF Place, Sending, NoLog
    <2> QED
      BY <1>1, <1>3, <2>1, <2>2, <2>3, SenderQuiet DEF x, NoLog, Keep
  <1>4. CASE Hears("ZSKIP") /\ GoOn({Current})
    BY <1>1, <1>4, GoOnKept
  <1>5. CASE Hears("ZRPOS") /\ Keep /\ Sends([s EXCEPT !.st = "head", !.drain = FALSE, !.pos = Head(toS).pos,
                                              !.fd = IF link.mapped THEN "mapped" ELSE "open"],
                                             Tail(toS), <<>>)
    <2> DEFINE x == [s EXCEPT !.st = "head", !.drain = FALSE, !.pos = Head(toS).pos,
                              !.fd = IF link.mapped THEN "mapped" ELSE "open"]
    <2>0. Sends(x, Tail(toS), <<>>)
      BY <1>5
    <2>1. toS # <<>> /\ Head(toS).pos \in Nat /\ Head(toS).pos <= Size[Current]
      <3>1. toS \in Seq(PacketsS) /\ toS # <<>> /\ toS[1].type = "ZRPOS" /\ Head(toS) = toS[1] /\ 1 \in 1..Len(toS)
        BY <1>5 DEF Inv, ZTyped, Hears, Silent
      <3>2. toS[1].pos \in Nat
        BY <3>1, FieldsS
      <3> QED
        BY <3>1, <3>2 DEF Inv, Replies
    <2>2. x \in SendersAt /\ x.job = s.job /\ x.st = "head" /\ ~InFrameAs(x) /\ ~x.tail /\ x.pos <= Size[Current]
      <3>1. PICK n \in Nat, d \in {"open", "mapped"} :
               n <= Size[Current] /\ x = [s EXCEPT !.st = "head", !.drain = FALSE, !.pos = n, !.fd = d]
        BY <2>1
      <3> HIDE DEF x
      <3> QED
        BY <1>1, <1>2, <3>1 DEF SendersAt, InFrameAs
    <2> HIDE DEF x
    <2>3. s' = x /\ whole' = whole /\ L' = L /\ Current' = Current /\ (InJob' <=> InJob)
      BY <2>0, <2>1, <2>2, SameJob
    <2>4. Place'
      BY <1>1, <1>2, <2>2, <2>3 DEF Place, Sending, NoLog
    <2> QED
      BY <1>1, <1>5, <2>0, <2>1, <2>2, <2>4, SenderQuiet DEF NoLog, Keep
  <1>6. CASE Hears("ZFIN") /\ Fails(Tail(toS)) /\ Keep
    BY <1>1, <1>6, FailsKept DEF Silent, Keep, Hears
  <1>7. ASSUME NEW x \in {s, [s EXCEPT !.drain = FALSE]}, NEW rest \in {toS, Tail(toS)}, toS = <<>> => rest = toS,
               Sends(x, rest, <<ZFILE(Current)>>), UNCHANGED passed
        PROVE  Inv' /\ UNCHANGED <<held, whole, rlog>>
    <2> DEFINE p == <<ZFILE(Current)>>
    <2>1. x \in SendersAt /\ x.job = s.job /\ x.st = "file" /\ ~InFrameAs(x) /\ ~x.tail
      BY <1>1, <1>2 DEF SendersAt, InFrameAs
    <2>2. \E m \in PacketsR : p = <<m>>
      BY <1>2, PacketTypes
    <2>3. \A m : p = <<m>> => m.type = "ZFILE" /\ FitsAs(x.st, m)
      BY DEF ZFILE, FitsAs
    <2>4. s' = x /\ whole' = whole /\ L' = L /\ Current' = Current /\ (InJob' <=> InJob)
      BY <1>7, <2>1, SameJob
    <2> HIDE DEF p
    <2>5. Place' /\ ~Sending'
      BY <1>1, <1>2, <2>1, <2>4 DEF Place, Sending, NoLog
    <2> QED
      BY <1>1, <1>7, <2>1, <2>2, <2>3, <2>5, SenderQuiet DEF p, NoLog
  <1>8. CASE HearsOf({"ZACK", "ZNAK", "BAD"}) /\ Sends(s, Tail(toS), <<ZFILE(Current)>>) /\ Keep
    BY <1>7, <1>8 DEF HearsOf, Silent, Keep
  <1>9. CASE Sends([s EXCEPT !.drain = FALSE], toS, <<ZFILE(Current)>>) /\ UNCHANGED passed
    BY <1>7, <1>9
  <1> QED
    BY <1>3, <1>4, <1>5, <1>6, <1>8, <1>9 DEF SendFile

\* The header of a frame.
LEMMA SendHeadKept ==
    ASSUME Inv, SendHead, ~misled'
    PROVE  Inv' /\ UNCHANGED <<held, whole, rlog>>
  <1> DEFINE x == [s EXCEPT !.st = "data"]
             m == HdrAt("ZDATA", s.pos)
             z == Sub(Block(Current, s.pos + 1), "G")
  <1>1. s.st = "head" /\ ~Over(s) /\ ~Between /\ Coming = HdrAt("ZDATA", 0) /\ Sends(x, toS, <<m>>)
        /\ slog' = slog /\ passed' = passed
    BY DEF SendHead, Over, Coming, InFrame, InFrameAs, Between, Keep, NoLog
  <1>2. InJob /\ s.pos <= Size[Current] /\ ~s.tail /\ s \in SendersAt /\ s.pos \in Nat /\ Sending
    BY <1>1 DEF Inv, Place, ZTyped, Sending, SendersAt
  <1>3. x \in SendersAt /\ x.job = s.job /\ x.st = "data" /\ x.pos = s.pos /\ InFrameAs(x) /\ ~x.tail
    BY <1>1, <1>2 DEF SendersAt, InFrameAs
  <1>4. m \in PacketsR /\ m.type = "ZDATA" /\ m.pos = s.pos /\ FitsAs(x.st, m)
    BY <1>2, <1>3, PacketTypes DEF FitsAs, HdrAt
  <1> HIDE DEF x
  <1>5. /\ s' = x /\ whole' = whole /\ L' = L /\ Current' = Current /\ (InJob' <=> InJob)
        /\ carrier' = carrier /\ Taken' = Taken /\ Coming' = z
    BY <1>1, <1>3, SameJob
  <1>6. Follows(m, z) /\ \A y : Follows(y, Coming) => Follows(y, m)
    <2>1. z.type = "SUB" /\ z.blocks[1][2] = s.pos + 1
      BY BlockFields DEF Sub
    <2> HIDE DEF z, m
    <2>2. Follows(m, z)
      BY <1>4, <2>1 DEF Follows
    <2>3. \A y : Follows(y, Coming) => Follows(y, m)
      BY <1>1, <1>4 DEF Follows, HdrAt
    <2> QED
      BY <2>2, <2>3
  <1>7. Sent(toS, <<m>>) /\ Uncut(toS)
    BY <1>1, SendsEffect DEF Uncut
  <1> HIDE DEF m, z
  <1>8. carrier => InOrder(toR', Taken, z)
    BY <1>4, <1>6, <1>7, FramesSent DEF Inv
  <1>9. Frames'
    BY <1>5, <1>8 DEF Frames
  <1>10. Place'
    BY <1>2, <1>3, <1>5 DEF Place, Sending
  <1> QED
    BY <1>1, <1>2, <1>3, <1>4, <1>9, <1>10, SenderKept

LEMMA ContentOf ==
    ASSUME NEW f \in Files
    PROVE  /\ ZFile(f) \in Seq({<<f, b>> : b \in Nat}) /\ Len(ZFile(f)) = Size[f] /\ Size[f] \in Nat
           /\ \A n \in Nat : n < Size[f] => SubSeq(ZFile(f), n + 1, n + 1) = Block(f, n + 1)
           /\ \A n \in Nat : SubSeq(ZFile(f), n + 1, n) = <<>>
  <1>1. Size[f] \in Nat
    BY ZSizeAssumption
  <1>2. /\ ZFile(f) \in Seq({<<f, b>> : b \in Nat}) /\ Len(ZFile(f)) = Size[f]
        /\ \A b \in 1..Size[f] : ZFile(f)[b] = <<f, b>>
    BY <1>1 DEF ZFile
  <1>3. ASSUME NEW n \in Nat, n < Size[f] PROVE SubSeq(ZFile(f), n + 1, n + 1) = Block(f, n + 1)
    <2> DEFINE t == SubSeq(ZFile(f), n + 1, n + 1)
    <2>1. n + 1 \in 1..Size[f]
      BY <1>1, <1>3
    <2>2. t \in Seq({<<f, b>> : b \in Nat}) /\ Len(t) = 1 /\ t[1] = ZFile(f)[n + 1]
      BY <1>2, <2>1
    <2> HIDE DEF t
    <2>3. t = <<t[1]>>
      BY <2>2
    <2> QED
      BY <1>2, <2>1, <2>2, <2>3 DEF Block, t
  <1>4. \A n \in Nat : SubSeq(ZFile(f), n + 1, n) = <<>>
    BY <1>2
  <1> QED
    BY <1>1, <1>2, <1>3, <1>4

\* A block, or the empty end of an empty frame.
LEMMA DataSent ==
    ASSUME Inv, s.st = "data", NEW x \in SendersAt, NEW part, NEW to \in Nat, NEW e \in {"E", "G", "W"},
           \/ to = s.pos /\ to = Size[Current] /\ part = <<>>
           \/ to = s.pos + 1 /\ part = Block(Current, s.pos + 1),
           to <= Size[Current], e = "E" <=> to = Size[Current],
           Sends(x, toS, <<Sub(part, e)>>), NoLog, UNCHANGED passed,
           x.job = s.job, x.pos = to, x.tail <=> e = "E",
           x.st = IF e = "E" THEN "sent" ELSE IF e = "G" THEN "data" ELSE "ack"
    PROVE  Inv' /\ UNCHANGED <<held, whole, rlog>>
  <1>1. ~Over(s) /\ InFrame /\ slog' = slog /\ Coming = Sub(Block(Current, s.pos + 1), "G")
    BY DEF Over, Coming, InFrame, InFrameAs, NoLog
  <1>2. InJob /\ s.pos <= Size[Current] /\ ~s.tail /\ s \in SendersAt /\ s.pos \in Nat /\ Sending
        /\ Current \in Files /\ Size[Current] \in Nat
    BY ListType DEF Inv, Place, ZTyped, Sending, SendersAt
  <1> DEFINE m == Sub(part, e)
             z == IF e = "G" THEN Sub(Block(Current, to + 1), "G") ELSE HdrAt("ZDATA", 0)
  <1>6. ~Over(x) /\ (InFrameAs(x) <=> e = "G")
    BY DEF Over, InFrameAs
  <1>7. m \in PacketsR /\ m.type = "SUB" /\ m.blocks = part /\ m.end = e
    <2>1. m \in PacketsR
      BY <1>2, PacketTypes DEF SubEnd
    <2> QED
      BY <2>1 DEF Sub
  <1>8. FitsAs(x.st, m)
    <2>1. part # <<>> => s.pos + 1 \in 1..Size[Current] /\ part = Block(Current, s.pos + 1)
      BY <1>2
    <2> HIDE DEF m
    <2> QED
      BY <1>6, <1>7, <2>1 DEF FitsAs
  <1>9. /\ s' = x /\ whole' = whole /\ L' = L /\ Current' = Current /\ (InJob' <=> InJob)
        /\ carrier' = carrier /\ Taken' = Taken /\ Coming' = z
    <2>1. Coming' = IF InFrameAs(x) THEN Sub(Block(Current, x.pos + 1), "G")
                     ELSE IF Over(x) THEN Hdr("BAD") ELSE HdrAt("ZDATA", 0)
      BY <1>6, SameJob
    <2> QED
      BY <1>6, <2>1, SameJob
  <1>10. Follows(m, z)
    <2>1. CASE e = "G"
      <3>1. to = s.pos + 1 /\ part[1][2] = s.pos + 1
        BY <1>2, <2>1, BlockFields
      <3>2. z.type = "SUB" /\ z.blocks[1][2] = to + 1
        BY <2>1, BlockFields DEF Sub
      <3> HIDE DEF m, z
      <3> QED
        BY <1>7, <2>1, <3>1, <3>2 DEF Follows
    <2>2. CASE e # "G"
      <3>1. ~Goes(m)
        BY <1>7, <2>2 DEF Goes
      <3>2. z.type = "ZDATA"
        BY <2>2 DEF HdrAt
      <3> HIDE DEF m, z
      <3> QED
        BY <3>1, <3>2 DEF Follows
    <2> QED
      BY <2>1, <2>2
  <1>11. \A y : Follows(y, Coming) => Follows(y, m)
    <2>1. Coming.type = "SUB" /\ Coming.blocks = Block(Current, s.pos + 1) /\ Coming.blocks # <<>>
      BY <1>1, BlockFields DEF Sub
    <2>2. part = <<>> \/ part = Coming.blocks
      BY <2>1
    <2> HIDE DEF m
    <2> QED
      BY <1>7, <2>1, <2>2 DEF Follows
  <1>12. Sent(toS, <<m>>) /\ Uncut(toS)
    BY SendsEffect DEF Uncut
  <1>13. Sends(x, toS, <<m>>)
    OBVIOUS
  <1> HIDE DEF m, z
  <1>14. carrier => InOrder(toR', Taken, z)
    <2>1. \A n : <<m>> = <<n>> => n = m
      OBVIOUS
    <2> QED
      BY <1>7, <1>10, <1>11, <1>12, <2>1, FramesSent DEF Inv
  <1>15. Frames'
    BY <1>9, <1>14 DEF Frames
  <1>16. Place'
    BY <1>2, <1>6, <1>9 DEF Place, Sending
  <1> QED
    BY <1>1, <1>2, <1>6, <1>7, <1>8, <1>13, <1>15, <1>16, SenderKept

LEMMA SendDataKept ==
    ASSUME Inv, SendData, ~misled'
    PROVE  Inv' /\ UNCHANGED <<held, whole, rlog>>
  <1> DEFINE to   == ZLeast(s.pos + 1, Size[Current])
             part == SubSeq(ZFile(Current), s.pos + 1, to)
             w    == [s EXCEPT !.pos = IF to > @ \/ link.mapped THEN to ELSE @]
             w1   == [w EXCEPT !.st = "sent", !.tail = TRUE]
             w3   == [w EXCEPT !.st = "ack"]
  <1>1. s.st = "data" /\ NoLog /\ UNCHANGED passed
    BY DEF SendData
  <1>2. s.pos <= Size[Current] /\ ~s.tail /\ s \in SendersAt /\ s.pos \in Nat
        /\ Current \in Files /\ Size[Current] \in Nat
    BY <1>1, ListType DEF Inv, Place, ZTyped, Sending, SendersAt
  <1>3. /\ to \in Nat /\ to <= Size[Current]
        /\ \/ to = s.pos /\ to = Size[Current] /\ part = <<>>
           \/ to = s.pos + 1 /\ part = Block(Current, s.pos + 1)
    <2>1. CASE s.pos = Size[Current]
      BY <1>2, <2>1, ContentOf DEF ZLeast
    <2>2. CASE s.pos < Size[Current]
      <3>1. to = s.pos + 1
        BY <1>2, <2>2 DEF ZLeast
      <3>2. part = Block(Current, s.pos + 1)
        BY <1>2, <2>2, <3>1, ContentOf
      <3> HIDE DEF to, part
      <3> QED
        BY <1>2, <2>2, <3>1, <3>2
    <2> QED
      BY <1>2, <2>1, <2>2
  <1>4. w = [s EXCEPT !.pos = to]
    BY <1>2, <1>3 DEF SendersAt
  <1>5. \/ to = Size[Current] /\ Sends(w1, toS, <<Sub(part, "E")>>)
        \/ to < Size[Current] /\ Sends(w, toS, <<Sub(part, "G")>>)
        \/ to < Size[Current] /\ Sends(w3, toS, <<Sub(part, "W")>>)
    BY DEF SendData
  <1>6. w1 = [w EXCEPT !.st = "sent", !.tail = TRUE] /\ w3 = [w EXCEPT !.st = "ack"]
    OBVIOUS
  <1> HIDE DEF w, w1, w3, to, part
  <1>7. w \in SendersAt /\ w.job = s.job /\ w.pos = to /\ w.st = "data" /\ ~w.tail
    BY <1>1, <1>2, <1>3, <1>4 DEF SendersAt
  <1>8. w1 \in SendersAt /\ w1.job = s.job /\ w1.pos = to /\ w1.st = "sent" /\ w1.tail
    BY <1>6, <1>7 DEF SendersAt
  <1>9. w3 \in SendersAt /\ w3.job = s.job /\ w3.pos = to /\ w3.st = "ack" /\ ~w3.tail
    BY <1>6, <1>7 DEF SendersAt
  <1>10. CASE to = Size[Current] /\ Sends(w1, toS, <<Sub(part, "E")>>)
    BY <1>1, <1>3, <1>8, <1>10, DataSent
  <1>11. CASE to < Size[Current] /\ Sends(w, toS, <<Sub(part, "G")>>)
    <2>1. to \in Nat /\ to # Size[Current] /\ to <= Size[Current] /\ to = s.pos + 1 /\ part = Block(Current, s.pos + 1)
      BY <1>2, <1>3, <1>11
    <2>2. "G" \in {"E", "G", "W"} /\ ("G" = "E" <=> to = Size[Current]) /\ (w.tail <=> "G" = "E")
      BY <1>7, <2>1
    <2> QED
      BY <1>1, <1>7, <1>11, <2>1, <2>2, DataSent
  <1>12. CASE to < Size[Current] /\ Sends(w3, toS, <<Sub(part, "W")>>)
    <2>1. to \in Nat /\ to # Size[Current] /\ to <= Size[Current] /\ to = s.pos + 1 /\ part = Block(Current, s.pos + 1)
      BY <1>2, <1>3, <1>12
    <2>2. "W" \in {"E", "G", "W"} /\ ("W" = "E" <=> to = Size[Current]) /\ (w3.tail <=> "W" = "E")
      BY <1>9, <2>1
    <2> QED
      BY <1>1, <1>9, <1>12, <2>1, <2>2, DataSent
  <1> QED
    BY <1>5, <1>10, <1>11, <1>12

LEMMA SendEofKept ==
    ASSUME Inv, SendEof, ~misled'
    PROVE  Inv' /\ UNCHANGED <<held, whole, rlog>>
  <1> DEFINE x == [s EXCEPT !.st = "eof"]
             p == <<HdrAt("ZEOF", s.pos)>>
  <1>1. s.st = "sent" /\ ~Over(s) /\ ~InFrame /\ Sends(x, toS, p) /\ LogSent /\ passed' = passed
    BY DEF SendEof, Over, InFrame, InFrameAs, Keep
  <1>2. InJob /\ s.pos = Size[Current] /\ s.tail /\ s \in SendersAt /\ s.pos \in Nat /\ Sending
    BY <1>1 DEF Inv, Place, ZTyped, Sending, SendersAt
  <1>3. x \in SendersAt /\ x.job = s.job /\ x.st = "eof" /\ x.pos = s.pos /\ x.tail /\ ~InFrameAs(x)
    BY <1>1, <1>2 DEF SendersAt, InFrameAs
  <1>4. \E m \in PacketsR : p = <<m>>
    BY <1>2, PacketTypes
  <1>5. \A m : p = <<m>> => m.type = "ZEOF" /\ FitsAs(x.st, m)
    BY <1>2, <1>3 DEF HdrAt, FitsAs
  <1> HIDE DEF x, p
  <1>6. s' = x /\ whole' = whole /\ L' = L /\ Current' = Current /\ (InJob' <=> InJob)
    BY <1>1, <1>3, SameJob
  <1>7. Place'
    BY <1>2, <1>3, <1>6 DEF Place, Sending
  <1> QED
    BY <1>1, <1>2, <1>3, <1>4, <1>5, <1>7, SenderQuiet

LEMMA InSyncKept ==
    ASSUME Inv, InSync, ~misled'
    PROVE  Inv' /\ UNCHANGED <<held, whole, rlog>>
  <1>1. Sending /\ ~Over(s) /\ NoLog /\ (Between <=> s.st \in {"data", "sent", "sync"})
        /\ (~Between <=> s.st \in {"ack", "eof"})
    BY DEF InSync, Between, Sending, Over
  <1>2. /\ InJob /\ s.pos <= Size[Current] /\ s \in SendersAt /\ Current \in Files
        /\ s.tail => s.pos = Size[Current]
        /\ s.st \in {"head", "data", "ack"} => ~s.tail
        /\ s.st \in {"sent", "eof"} => s.tail
    BY <1>1, ListType DEF Inv, Place, ZTyped
  <1>3. toS \in Seq(PacketsS) /\ (toS # <<>> => Tail(toS) # toS)
    <2>1. toS \in Seq(PacketsS)
      BY DEF Inv, ZTyped
    <2>2. toS # <<>> => Len(Tail(toS)) # Len(toS)
      BY <2>1
    <2> QED
      BY <2>1, <2>2
  <1>4. CASE Hears("ZRPOS") /\ Back(Head(toS).pos) /\ Keep
    <2>1. toS # <<>> /\ Head(toS).type = "ZRPOS" /\ Head(toS).pos \in Nat /\ Head(toS).pos <= Size[Current]
      <3>1. toS # <<>> /\ toS[1].type = "ZRPOS" /\ Head(toS) = toS[1] /\ 1 \in 1..Len(toS)
        BY <1>3, <1>4 DEF Hears, Silent
      <3>2. toS[1].pos \in Nat
        BY <1>3, <3>1, FieldsS
      <3> QED
        BY <3>1, <3>2 DEF Inv, Replies
    <2>2. CASE s.fd = "mapped"
      <3> DEFINE x == [s EXCEPT !.st = "killed"]
      <3>1. Sends(x, <<>>, <<>>)
        BY <1>4, <2>2 DEF Back
      <3>2. x \in SendersAt /\ x.job = s.job /\ x.st = "killed" /\ Over(x)
        BY <1>2 DEF SendersAt, Over
      <3> HIDE DEF x
      <3>3. s' = x
        BY <2>1, <3>1, SendsEffect
      <3>4. Place' /\ ~Sending'
        BY <3>2, <3>3 DEF Place, Sending
      <3> QED
        BY <1>1, <1>4, <2>1, <3>1, <3>2, <3>4, SenderQuiet DEF Keep, NoLog
    <2>3. CASE s.fd # "mapped"
      <3> DEFINE x == [s EXCEPT !.st = "head", !.pos = Head(toS).pos, !.tail = FALSE]
      <3>1. Sends(x, Tail(toS), <<>>)
        BY <1>4, <2>3 DEF Back
      <3>2. x \in SendersAt /\ x.job = s.job /\ x.st = "head" /\ x.pos <= Size[Current] /\ ~x.tail
            /\ ~InFrameAs(x)
        <4>1. PICK n \in Nat : n <= Size[Current] /\ x = [s EXCEPT !.st = "head", !.pos = n, !.tail = FALSE]
          BY <2>1
        <4> HIDE DEF x
        <4> QED
          BY <1>2, <4>1 DEF SendersAt, InFrameAs
      <3> HIDE DEF x
      <3>3. s' = x /\ whole' = whole /\ L' = L /\ Current' = Current /\ (InJob' <=> InJob)
        BY <2>1, <3>1, <3>2, SameJob
      <3>4. Place'
        BY <1>2, <3>2, <3>3 DEF Place, Sending
      <3>5. Uncut(Tail(toS)) => ~InFrame
        BY <1>3, <2>1 DEF Uncut, Between, InFrame, InFrameAs
      <3> QED
        BY <1>1, <1>4, <2>1, <3>1, <3>2, <3>4, <3>5, SenderQuiet DEF Keep, NoLog
    <2> QED
      BY <2>2, <2>3
  <1>5. CASE Hears("ZRINIT") /\ GoOn({})
    BY <1>1, <1>5, GoOnKept
  <1>6. CASE Hears("ZSKIP") /\ GoOn({Current})
    BY <1>1, <1>6, GoOnKept
  <1>7. CASE Hears("ZFIN") /\ Fails(Tail(toS)) /\ Keep
    BY <1>1, <1>7, FailsKept DEF Hears, Silent, Keep
  \* The sender stays where it is, or between blocks goes to one state or the other.
  <1>8. ASSUME NEW x \in SendersAt, HearsOf({"ZACK", "ZNAK", "BAD"}), Keep, x.job = s.job, x.pos = s.pos,
               x.tail = s.tail,
               IF Between THEN x.st = "sync" \/ x.st = (IF s.tail THEN "sent" ELSE "data")
                          ELSE x.st = s.st \/ (s.st = "ack" /\ x.st = "head"),
               NEW p, Sends(x, Tail(toS), p), p = <<>> \/ \E m \in PacketsR : p = <<m>>,
               \A m : p = <<m>> => m.type = "ZNAK" \/ (m.type = "ZEOF" /\ s.st = "eof" /\ m.pos = s.pos)
        PROVE  Inv' /\ UNCHANGED <<held, whole, rlog>>
    <2>1. toS # <<>> /\ Uncut(Tail(toS))
      BY <1>8 DEF Uncut, HearsOf, Silent
    <2>2. s' = x /\ whole' = whole /\ L' = L /\ Current' = Current /\ (InJob' <=> InJob)
      BY <1>8, <2>1, SameJob
    <2>3. Place'
      BY <1>1, <1>2, <1>8, <2>2 DEF Place, Sending
    <2>4. \A m : p = <<m>> => FitsAs(x.st, m)
      BY <1>1, <1>2, <1>8 DEF FitsAs
    <2>5. InFrame <=> InFrameAs(x)
      BY <1>1, <1>2, <1>8 DEF InFrame, InFrameAs
    <2>6. InFrame => Between /\ s.st # "eof"
      BY <1>1 DEF InFrame, InFrameAs
    <2>7. x.st # "file" /\ ~Over(x)
      BY <1>1, <1>8 DEF Over
    <2>8. \A m : p = <<m>> => m.type \notin {"ZFILE", "CAN", "SUB", "ZDATA"}
      BY <1>8
    <2>9. InFrame => \A m : p = <<m>> => m.type = "ZNAK"
      BY <1>8, <2>6
    <2>10. \/ ~InFrame /\ ~InFrameAs(x)
           \/ /\ Uncut(Tail(toS)) /\ InFrame /\ InFrameAs(x) /\ x.pos = s.pos
              /\ \A m : p = <<m>> => m.type = "ZNAK"
      BY <1>8, <2>1, <2>5, <2>9
    <2>11. slog' = slog /\ passed' = passed
      BY <1>1, <1>8 DEF Keep, NoLog
    <2> QED
      BY <1>1, <1>8, <2>1, <2>3, <2>4, <2>7, <2>8, <2>10, <2>11, SenderQuiet
  <1>9. CASE HearsOf({"ZNAK", "BAD"}) /\ Keep
             /\ Sends([s EXCEPT !.st = IF Between THEN "sync" ELSE @], Tail(toS), <<Hdr("ZNAK")>>)
    <2> DEFINE x == [s EXCEPT !.st = IF Between THEN "sync" ELSE @]
               p == <<Hdr("ZNAK")>>
    <2>1. Sends(x, Tail(toS), p) /\ HearsOf({"ZACK", "ZNAK", "BAD"})
      BY <1>9 DEF HearsOf
    <2>2. /\ x \in SendersAt /\ x.job = s.job /\ x.pos = s.pos /\ x.tail = s.tail
          /\ x.st = IF Between THEN "sync" ELSE s.st
      BY <1>2 DEF SendersAt
    <2>3. (\E m \in PacketsR : p = <<m>>) /\ \A m : p = <<m>> => m.type = "ZNAK"
      BY PacketTypes DEF Hdr
    <2> HIDE DEF x, p
    <2> QED
      BY <1>8, <1>9, <2>1, <2>2, <2>3
  <1>10. CASE Hears("ZACK") /\ Keep
              /\ IF Between THEN Sends([s EXCEPT !.st = IF s.tail THEN "sent" ELSE "data"], Tail(toS), <<>>)
                 ELSE IF Head(toS).pos # s.pos THEN Sends(s, Tail(toS), <<>>)
                 ELSE IF s.st = "ack" THEN Sends([s EXCEPT !.st = "head"], Tail(toS), <<>>)
                 ELSE Sends(s, Tail(toS), <<HdrAt("ZEOF", s.pos)>>)
    <2> DEFINE y1 == [s EXCEPT !.st = IF s.tail THEN "sent" ELSE "data"]
               y3 == [s EXCEPT !.st = "head"]
               p  == <<HdrAt("ZEOF", s.pos)>>
    <2>1. HearsOf({"ZACK", "ZNAK", "BAD"})
      BY <1>10 DEF HearsOf, Hears
    <2>2. /\ y1 \in SendersAt /\ y1.job = s.job /\ y1.pos = s.pos /\ y1.tail = s.tail
          /\ y1.st = IF s.tail THEN "sent" ELSE "data"
      BY <1>2 DEF SendersAt
    <2>3. y3 \in SendersAt /\ y3.job = s.job /\ y3.pos = s.pos /\ y3.tail = s.tail /\ y3.st = "head"
      BY <1>2 DEF SendersAt
    <2>4. (\E m \in PacketsR : p = <<m>>) /\ \A m : p = <<m>> => m.type = "ZEOF" /\ m.pos = s.pos
      <3>1. s.pos \in Nat
        BY <1>2 DEF SendersAt
      <3>2. HdrAt("ZEOF", s.pos) \in PacketsR
        BY <3>1, PacketTypes
      <3> QED
        BY <3>2 DEF HdrAt
    <2>5. \/ Between /\ Sends(y1, Tail(toS), <<>>)
          \/ ~Between /\ Sends(s, Tail(toS), <<>>)
          \/ ~Between /\ s.st = "ack" /\ Sends(y3, Tail(toS), <<>>)
          \/ ~Between /\ s.st # "ack" /\ Sends(s, Tail(toS), p)
      BY <1>10
    <2> HIDE DEF y1, y3, p
    <2>6. CASE Between /\ Sends(y1, Tail(toS), <<>>)
      BY <1>8, <1>10, <2>1, <2>2, <2>6
    <2>7. CASE ~Between /\ Sends(s, Tail(toS), <<>>)
      BY <1>2, <1>8, <1>10, <2>1, <2>7
    <2>8. CASE ~Between /\ s.st = "ack" /\ Sends(y3, Tail(toS), <<>>)
      BY <1>8, <1>10, <2>1, <2>3, <2>8
    <2>9. CASE ~Between /\ s.st # "ack" /\ Sends(s, Tail(toS), p)
      <3>1. s.st = "eof"
        BY <1>1, <2>9
      <3> QED
        BY <1>2, <1>8, <1>10, <2>1, <2>4, <2>9, <3>1
    <2> QED
      BY <2>5, <2>6, <2>7, <2>8, <2>9
  <1> QED
    BY <1>4, <1>5, <1>6, <1>7, <1>9, <1>10 DEF InSync

\* The goodbye, and a command instead of files.
LEMMA EndingKept ==
    ASSUME Inv, s.st \in {"fin", "cmd"}, NEW x \in SendersAt, NEW rest \in {toS, Tail(toS), <<>>},
           toS = <<>> => rest = toS, x.job = s.job, x.st \in {"fin", "cmd", "ok"}, NEW p, Sends(x, rest, p),
           p = <<>> \/ \E m \in PacketsR : p = <<m>>,
           \A m : p = <<m>> => m.type \in {"ZFIN", "ZCOMMAND", "OO"},
           NoLog, UNCHANGED passed
    PROVE  Inv' /\ UNCHANGED <<held, whole, rlog>>
  <1>1. ~Over(s) /\ ~InFrame /\ ~InFrameAs(x)
    BY DEF Over, InFrame, InFrameAs
  <1>2. s.job = Len(L) + 1
    BY DEF Inv, Place
  <1>3. s' = x /\ whole' = whole /\ L' = L /\ Current' = Current /\ (InJob' <=> InJob)
    BY SameJob
  <1>4. Place' /\ ~Sending'
    BY <1>2, <1>3 DEF Place, Sending
  <1>5. \A m : p = <<m>> => FitsAs(x.st, m)
    BY DEF FitsAs
  <1> QED
    BY <1>1, <1>4, <1>5, SenderQuiet DEF NoLog

LEMMA SendFinKept ==
    ASSUME Inv, SendFin, ~misled'
    PROVE  Inv' /\ UNCHANGED <<held, whole, rlog>>
  <1>1. s.st = "fin" /\ toS # <<>> /\ NoLog /\ UNCHANGED passed /\ s \in SendersAt
    BY DEF SendFin, Silent, Keep, Inv, ZTyped
  <1>2. CASE HearsOf({"ZFIN", "CAN"})
    <2> DEFINE x == [s EXCEPT !.st = "ok"]
               p == IF Hears("ZFIN") THEN <<Hdr("OO")>> ELSE <<>>
    <2>1. Sends(x, <<>>, p)
      BY <1>2 DEF SendFin
    <2>2. x \in SendersAt /\ x.job = s.job /\ x.st = "ok"
      BY <1>1 DEF SendersAt
    <2>3. (p = <<>> \/ \E m \in PacketsR : p = <<m>>) /\ \A m : p = <<m>> => m.type = "OO"
      BY PacketTypes DEF Hdr
    <2> HIDE DEF x, p
    <2> QED
      BY <1>1, <2>1, <2>2, <2>3, EndingKept
  <1>3. CASE ~HearsOf({"ZFIN", "CAN"})
    <2> DEFINE p == <<Hdr("ZFIN")>>
    <2>1. Sends(s, Tail(toS), p)
      BY <1>3 DEF SendFin
    <2>2. (\E m \in PacketsR : p = <<m>>) /\ \A m : p = <<m>> => m.type = "ZFIN"
      BY PacketTypes DEF Hdr
    <2> HIDE DEF p
    <2> QED
      BY <1>1, <2>1, <2>2, EndingKept
  <1> QED
    BY <1>2, <1>3

LEMMA SendCommandKept ==
    ASSUME Inv, SendCommand, ~misled'
    PROVE  Inv' /\ UNCHANGED <<held, whole, rlog>>
  <1>1. s.st = "cmd" /\ ~Over(s) /\ toS # <<>> /\ NoLog /\ UNCHANGED passed /\ s \in SendersAt
    BY DEF SendCommand, Silent, Keep, Inv, ZTyped, Over
  <1>2. CASE Sends(s, Tail(toS), <<>>)
    BY <1>1, <1>2, EndingKept
  <1>3. CASE Sends([s EXCEPT !.st = "fin"], Tail(toS), <<Hdr("ZFIN")>>)
    <2> DEFINE x == [s EXCEPT !.st = "fin"]
               p == <<Hdr("ZFIN")>>
    <2>1. Sends(x, Tail(toS), p)
      BY <1>3
    <2>2. x \in SendersAt /\ x.job = s.job /\ x.st = "fin"
      BY <1>1 DEF SendersAt
    <2>3. (\E m \in PacketsR : p = <<m>>) /\ \A m : p = <<m>> => m.type = "ZFIN"
      BY PacketTypes DEF Hdr
    <2> HIDE DEF x, p
    <2> QED
      BY <1>1, <2>1, <2>2, <2>3, EndingKept
  <1>4. CASE Fails(Tail(toS))
    BY <1>1, <1>4, FailsKept
  <1>5. CASE Sends([s EXCEPT !.tries = @ - 1], Tail(toS), <<Hdr("ZCOMMAND")>>)
    <2> DEFINE x == [s EXCEPT !.tries = @ - 1]
               p == <<Hdr("ZCOMMAND")>>
    <2>1. Sends(x, Tail(toS), p)
      BY <1>5
    <2>2. x \in SendersAt /\ x.job = s.job /\ x.st = "cmd"
      BY <1>1 DEF SendersAt
    <2>3. (\E m \in PacketsR : p = <<m>>) /\ \A m : p = <<m>> => m.type = "ZCOMMAND"
      BY PacketTypes DEF Hdr
    <2> HIDE DEF x, p
    <2> QED
      BY <1>1, <2>1, <2>2, <2>3, EndingKept
  <1> QED
    BY <1>2, <1>3, <1>4, <1>5 DEF SendCommand

LEMMA SendTimeoutKept ==
    ASSUME Inv, SendTimeout, ~misled'
    PROVE  Inv' /\ UNCHANGED <<held, whole, rlog>>
  <1>1. ~Over(s) /\ UNCHANGED passed /\ s \in SendersAt
    BY DEF SendTimeout, Inv, ZTyped, Over
  <1>2. CASE s.st = "fin" /\ Sends([s EXCEPT !.st = "ok"], <<>>, <<>>) /\ NoLog
    <2> DEFINE x == [s EXCEPT !.st = "ok"]
    <2>1. Sends(x, <<>>, <<>>)
      BY <1>2
    <2>2. x \in SendersAt /\ x.job = s.job /\ x.st = "ok"
      BY <1>1 DEF SendersAt
    <2> HIDE DEF x
    <2> QED
      BY <1>1, <1>2, <2>1, <2>2, EndingKept
  <1>3. CASE s.st = "cmd" /\ Sends([s EXCEPT !.tries = @ - 1], toS, <<Hdr("ZCOMMAND")>>) /\ NoLog
    <2> DEFINE x == [s EXCEPT !.tries = @ - 1]
               p == <<Hdr("ZCOMMAND")>>
    <2>1. Sends(x, toS, p)
      BY <1>3
    <2>2. x \in SendersAt /\ x.job = s.job /\ x.st = "cmd"
      BY <1>1, <1>3 DEF SendersAt
    <2>3. (\E m \in PacketsR : p = <<m>>) /\ \A m : p = <<m>> => m.type = "ZCOMMAND"
      BY PacketTypes DEF Hdr
    <2> HIDE DEF x, p
    <2> QED
      BY <1>1, <1>3, <2>1, <2>2, <2>3, EndingKept
  <1>4. CASE Fails(toS)
    BY <1>1, <1>4, FailsKept
  <1> QED
    BY <1>2, <1>3, <1>4 DEF SendTimeout

LEMMA SenderKeeps ==
    ASSUME Inv, Sender, ~misled'
    PROVE  Inv' /\ UNCHANGED <<held, whole, rlog>>
  <1>1. CASE SendCancelled
    BY <1>1, FailsKept DEF SendCancelled, Keep, Hears, Silent
  <1> QED
    BY <1>1, SendInitKept, SendFileKept, SendHeadKept, SendDataKept, SendEofKept, InSyncKept, SendFinKept,
       SendCommandKept, SendTimeoutKept DEF Sender

-----------------------------------------------------------------------------
(* The receiver's steps.                                                    *)

\* A line that gets shorter keeps what is true of it.
LEMMA LineLeft ==
    ASSUME ZTyped, Behind(toR', toR), UNCHANGED <<link, s>>
    PROVE  /\ FitsAfter(0) => FitsAfter(0)'
           /\ Offers /\ whole' = whole /\ declined \subseteq declined' => Offers'
           /\ Ends /\ (carrier \/ carrier' = carrier) /\ (~carrier' => toR' = <<>> /\ toS' = <<>>) => Ends'
  <1>0. toR \in Seq(PacketsR) /\ Len(toR) \in Nat
    BY DEF ZTyped
  <1>1. PICK d \in 0..Len(toR) :
           /\ Len(toR') = Len(toR) - d
           /\ \A k \in 1..Len(toR') : toR'[k] = toR[k + d] \/ (toR'[k] = Hdr("BAD") /\ k = 1)
    BY DEF Behind
  <1>2. Len(toR') \in Nat /\ \A k \in 1..Len(toR') : k + d \in 1..Len(toR)
    BY <1>0, <1>1
  <1>3. /\ Current' = Current /\ (InJob' <=> InJob)
        /\ \A m : Fits(m)' <=> Fits(m)
    BY DEF Current, InJob, L, Fits, FitsAs
  <1>4. Fits(Hdr("BAD"))
    BY DEF Fits, FitsAs, Hdr
  <1>5. ASSUME NEW j \in Nat, FitsAfter(j + d) PROVE FitsAfter(j)'
    <2>1. ASSUME NEW k \in 1..Len(toR'), k > j PROVE Fits(toR'[k])
      <3>1. k + d \in 1..Len(toR) /\ k + d > j + d
        BY <1>2, <2>1
      <3> QED
        BY <1>1, <1>4, <1>5, <3>1 DEF FitsAfter
    <2>2. ASSUME NEW i \in 1..Len(toR'), NEW k \in 1..Len(toR'), j < i, i < k,
                 toR'[i].type = "ZEOF", toR'[k].type = "ZFILE"
          PROVE  FALSE
      <3>1. i + d \in 1..Len(toR) /\ k + d \in 1..Len(toR) /\ j + d < i + d /\ i + d < k + d
        BY <1>2, <2>2
      <3>2. toR'[i] = toR[i + d] /\ toR'[k] = toR[k + d]
        BY <1>1, <2>2 DEF Hdr
      <3> QED
        BY <1>5, <2>2, <3>1, <3>2 DEF FitsAfter
    <2> QED
      BY <1>3, <2>1, <2>2 DEF FitsAfter
  <1>6. FitsAfter(0) => FitsAfter(0)'
    <2>1. FitsAfter(0) => FitsAfter(0 + d)
      BY <1>1 DEF FitsAfter
    <2> QED
      BY <1>5, <2>1
  <1>7. ASSUME Offers, whole' = whole, declined \subseteq declined' PROVE Offers'
    <2> SUFFICES ASSUME NEW j \in 1..Len(toR'), toR'[j].type = "ZFILE"
                 PROVE  \/ toR'[j].file \in declined'
                        \/ InJob /\ toR'[j].file = Current /\ Current \notin whole /\ FitsAfter(j)'
      BY <1>3, <1>7 DEF Offers
    <2>1. j + d \in 1..Len(toR) /\ toR'[j] = toR[j + d] /\ j \in Nat
      BY <1>1, <1>2 DEF Hdr
    <2>2. FitsAfter(j + d) => FitsAfter(j)'
      BY <1>5, <2>1
    <2> QED
      BY <1>7, <2>1, <2>2 DEF Offers
  <1>8. ASSUME Ends, ~carrier' => toR' = <<>> /\ toS' = <<>> PROVE Ends'
    <2>1. ASSUME NEW i \in 1..Len(toR'), toR'[i].type = "CAN" PROVE Over(s) /\ i = Len(toR')
      <3>1. i + d \in 1..Len(toR) /\ toR'[i] = toR[i + d]
        BY <1>1, <1>2, <2>1 DEF Hdr
      <3>2. Over(s) /\ i + d = Len(toR)
        BY <1>8, <2>1, <3>1 DEF Ends
      <3> QED
        BY <1>0, <1>1, <1>2, <3>2
    <2> QED
      BY <1>8, <2>1 DEF Ends, Over
  <1> QED
    BY <1>6, <1>7, <1>8

\* A receiver that is not, or no longer, in a frame.
LEMMA FramesTaken ==
    ASSUME Inv, NEW x, NEW rest \in {toR, Tail(toR), <<>>}, NEW p, Answers(x, rest, p),
           toR = <<>> => rest = toR, x.st # "data"
    PROVE  Frames'
  <1>1. /\ r' = x /\ toR' = (IF Over(x) THEN <<>> ELSE rest)
        /\ UNCHANGED <<link, s, carrier>>
    BY DEF Answers
  <1>2. Coming' = Coming /\ Taken' = Hdr("BAD")
    BY <1>1 DEF Coming, InFrame, InFrameAs, Current, Over, Taken
  <1> SUFFICES ASSUME carrier PROVE InOrder(toR', Hdr("BAD"), Coming)
    BY <1>1, <1>2 DEF Frames
  <1>3. InOrder(toR, Taken, Coming) /\ toR \in Seq(PacketsR)
    BY DEF Inv, Frames, ZTyped
  <1>4. CASE toR' = <<>>
    <2>1. Follows(Hdr("BAD"), Coming)
      BY OutOfFrame
    <2> QED
      BY <1>4, <2>1, EmptyInOrder
  <1>5. CASE toR' = toR
    BY <1>3, <1>5, LeftInOrder
  <1>6. CASE toR # <<>> /\ toR' = Tail(toR)
    <2>1. \A y : Follows(toR[1], y) => Follows(Hdr("BAD"), y)
      BY OutOfFrame
    <2>2. InOrder(Tail(toR), Hdr("BAD"), Coming)
      BY <1>3, <1>6, <2>1, TailInOrder
    <2> QED
      BY <1>6, <2>2
  <1> QED
    BY <1>1, <1>4, <1>5, <1>6

\* What is common to the receiver's steps.
LEMMA ReceiverKept ==
    ASSUME Inv, NEW x \in ReceiversAt, NEW rest \in {toR, Tail(toR), <<>>}, NEW p, Answers(x, rest, p),
           toR = <<>> => rest = toR,
           p = <<>> \/ \E m \in PacketsS : p = <<m>>,
           held' = [f \in Files |-> held'[f]], rlog' \in [Files -> 0..2], whole' \subseteq Files, declined' \subseteq Files,
           whole \subseteq whole',
           Current \in declined' =>
              Current \in declined \/ (~Sending /\ \A i \in 1..Len(toS) : toS[i].type # "ZRPOS"),
           x.st = "try" => r.st = "try" \/ Current \in whole',
           \A m : p = <<m>> =>
              /\ m.type = "ZRINIT" => x.st = "try"
              /\ m.type = "ZRPOS" => /\ InJob /\ Current \notin declined' /\ m.pos <= Size[Current]
                                     /\ Current \notin whole /\ x.st # "try",
           Place', Past', Hands', Offers', Names', Begun', Frames'
    PROVE  Inv'
  <1>1. /\ r' = x /\ toR' = (IF Over(x) THEN <<>> ELSE rest) /\ toS' = Put(toS, s, p)
        /\ UNCHANGED <<link, s, slog, passed, carrier>>
    BY DEF Answers
  <1>2. ZTyped
    BY DEF Inv
  <1>3. toR \in Seq(PacketsR) /\ toS \in Seq(PacketsS) /\ Len(toS) \in Nat
    BY <1>2 DEF ZTyped
  <1>4. L' = L /\ Current' = Current /\ (InJob' <=> InJob) /\ (Sending' <=> Sending)
    BY <1>1 DEF L, Current, InJob, Sending
  <1>5. Behind(toR', toR) /\ toR' \in Seq(PacketsR)
    BY <1>1, <1>3, LeftBehind
  <1>6. /\ toS' \in Seq(PacketsS) /\ Len(toS') \in Nat
        /\ \A k \in 1..Len(toS') : \/ k \in 1..Len(toS) /\ toS'[k] = toS[k]
                                   \/ k = Len(toS') /\ k > Len(toS) /\ p = <<toS'[k]>>
    <2>1. CASE ~carrier \/ Over(s)
      BY <1>1, <2>1 DEF Put
    <2>2. CASE p = <<>> /\ carrier /\ ~Over(s)
      <3>1. toS' = toS
        BY <1>1, <1>3, <2>2 DEF Put
      <3> QED
        BY <1>3, <3>1
    <2>3. CASE carrier /\ ~Over(s) /\ \E m \in PacketsS : p = <<m>>
      <3>1. PICK m \in PacketsS : p = <<m>>
        BY <2>3
      <3>2. toS' = toS \o <<m>>
        BY <1>1, <2>3, <3>1 DEF Put
      <3>3. /\ toS' \in Seq(PacketsS) /\ Len(toS') = Len(toS) + 1 /\ toS'[Len(toS) + 1] = m
            /\ \A k \in 1..Len(toS) : toS'[k] = toS[k]
        BY <1>3, <3>2
      <3>4. p = <<toS'[Len(toS')]>>
        BY <3>1, <3>3
      <3>5. \A k \in 1..Len(toS') : k \in 1..Len(toS) \/ (k = Len(toS') /\ k > Len(toS))
        BY <1>3, <3>3
      <3> QED
        BY <1>3, <3>3, <3>4, <3>5
    <2> QED
      BY <2>1, <2>2, <2>3
  <1>7. ZTyped'
    BY <1>1, <1>2, <1>4, <1>5, <1>6 DEF ZTyped
  <1>8. Replies'
    <2>1. ASSUME NEW i \in 1..Len(toS'), toS'[i].type = "ZRPOS"
          PROVE  /\ InJob /\ Current \notin declined' /\ toS'[i].pos <= Size[Current]
                 /\ x.st = "try" => Current \in whole'
                 /\ \A k \in 1..Len(toS') : i < k /\ toS'[k].type = "ZRINIT" => Current \in whole'
      <3>1. CASE i \in 1..Len(toS) /\ toS'[i] = toS[i]
        <4>1. /\ InJob /\ Current \notin declined /\ toS'[i].pos <= Size[Current]
              /\ r.st = "try" => Current \in whole
              /\ \A k \in 1..Len(toS) : i < k /\ toS[k].type = "ZRINIT" => Current \in whole
          BY <2>1, <3>1 DEF Inv, Replies
        <4>2. Current \notin declined'
          BY <2>1, <3>1, <4>1
        <4>3. x.st = "try" => Current \in whole'
          BY <4>1
        <4>4. ASSUME NEW k \in 1..Len(toS'), i < k, toS'[k].type = "ZRINIT" PROVE Current \in whole'
          BY <1>6, <4>1, <4>3, <4>4
        <4> QED
          BY <4>1, <4>2, <4>3, <4>4
      <3>2. CASE i = Len(toS') /\ i > Len(toS) /\ p = <<toS'[i]>>
        BY <1>6, <2>1, <3>2
      <3> QED
        BY <1>6, <3>1, <3>2
    <2>2. ASSUME NEW i \in 1..Len(toS'), NEW j \in 1..Len(toS'), NEW k \in 1..Len(toS'), i < j, j < k,
                 toS'[i].type = "ZRPOS", toS'[j].type = "ZRINIT", toS'[k].type = "ZRPOS"
          PROVE  FALSE
      <3>1. i \in 1..Len(toS) /\ j \in 1..Len(toS) /\ toS'[i] = toS[i] /\ toS'[j] = toS[j]
        BY <1>3, <1>6, <2>2
      <3>2. Current \in whole
        BY <2>2, <3>1 DEF Inv, Replies
      <3>3. k \in 1..Len(toS) /\ toS'[k] = toS[k]
        BY <1>6, <2>2, <3>2
      <3> QED
        BY <2>2, <3>1, <3>3 DEF Inv, Replies
    <2>3. ASSUME Sending
          PROVE  /\ Current \notin declined'
                 /\ x.st = "try" => Current \in whole'
                 /\ \A k \in 1..Len(toS') : toS'[k].type = "ZRINIT" => Current \in whole'
      <3>1. /\ Current \notin declined
            /\ r.st = "try" => Current \in whole
            /\ \A k \in 1..Len(toS) : toS[k].type = "ZRINIT" => Current \in whole
        BY <2>3 DEF Inv, Replies
      <3>2. Current \notin declined' /\ (x.st = "try" => Current \in whole')
        <4>1. r.st = "try" => Current \in whole
          BY <2>3 DEF Inv, Replies
        <4> QED
          BY <2>3, <3>1, <4>1
      <3>3. ASSUME NEW k \in 1..Len(toS'), toS'[k].type = "ZRINIT" PROVE Current \in whole'
        BY <1>6, <3>1, <3>2, <3>3
      <3> QED
        BY <3>2, <3>3
    <2>4. ASSUME Sending, NEW i \in 1..Len(toS'), NEW k \in 1..Len(toS'), i < k, toS'[i].type = "ZRINIT",
                 toS'[k].type = "ZRPOS"
          PROVE  FALSE
      <3>1. i \in 1..Len(toS) /\ toS'[i] = toS[i]
        BY <1>3, <1>6, <2>4
      <3>2. Current \in whole
        BY <2>4, <3>1 DEF Inv, Replies
      <3>3. k \in 1..Len(toS) /\ toS'[k] = toS[k]
        BY <1>6, <2>4, <3>2
      <3> QED
        BY <2>4, <3>1, <3>3 DEF Inv, Replies
    <2> QED
      BY <1>1, <1>4, <2>1, <2>2, <2>3, <2>4 DEF Replies
  <1>9. Ends'
    <2>1. ~carrier' => toR' = <<>> /\ toS' = <<>>
      BY <1>1 DEF Inv, Ends, Put
    <2> QED
      BY <1>1, <1>2, <1>5, <2>1, LineLeft DEF Inv
  <1> QED
    BY <1>7, <1>8, <1>9 DEF Inv

\* What the receiver does to its files leaves the sender's account of them true.
LEMMA PlaceKept ==
    ASSUME Inv, UNCHANGED <<link, s, slog, passed, declined>>, \A f \in declined : held'[f] = held[f],
           whole' = whole \/ (InJob /\ s.st # "file" /\ whole' = whole \cup {Current})
    PROVE  Place' /\ Past'
  <1>1. /\ ZTyped /\ Place /\ Past
        /\ Len(L) \in Nat /\ s.job \in Nat /\ \A i, j \in 1..Len(L) : L[i] = L[j] => i = j
    BY ListType DEF Inv
  <1>2. /\ L' = L /\ Current' = Current /\ Current = L[s.job] /\ (InJob' <=> InJob)
        /\ \A f \in declined : Elsewhere(f)' <=> Elsewhere(f)
    BY DEF L, Current, InJob, Elsewhere
  <1>3. Place'
    BY <1>1, <1>2 DEF Place, Sending
  <1>4. \A i \in 1..Len(L) : i > s.job => L[i] \notin whole'
    BY <1>1, <1>2 DEF Past, InJob
  <1> QED
    BY <1>1, <1>2, <1>3, <1>4 DEF Past

LEMMA AnswersEffect ==
    ASSUME Inv, NEW x, NEW rest, NEW p, Answers(x, rest, p), rest \in {toR, Tail(toR), <<>>},
           toR = <<>> => rest = toR
    PROVE  /\ r' = x /\ UNCHANGED <<link, s, slog, passed>>
           /\ L' = L /\ Current' = Current /\ (InJob' <=> InJob)
           /\ Behind(toR', toR)
  <1>1. r' = x /\ toR' = (IF Over(x) THEN <<>> ELSE rest) /\ UNCHANGED <<link, s, slog, passed>>
    BY DEF Answers
  <1>2. Behind(rest, toR) /\ Behind(<<>>, toR)
    BY LeftBehind DEF Inv, ZTyped
  <1> QED
    BY <1>1, <1>2 DEF L, Current, InJob

\* A receiver that is in no file and takes none.
LEMMA IdleKept ==
    ASSUME Inv, ~Receiving, NEW x \in ReceiversAt, NEW rest \in {toR, Tail(toR), <<>>}, NEW p,
           Answers(x, rest, p), toR = <<>> => rest = toR, NoFileStep,
           x.st \in {"try", "fin", "ok", "failed"}, x.st = "try" => r.st = "try",
           r.st = "failed" => x.st = "failed",
           x.fd \in {r.fd, "none"}, x.name = r.name,
           p = <<>> \/ \E m \in PacketsS : p = <<m>>,
           \A m : p = <<m>> => m.type \notin {"ZRPOS"} /\ (m.type = "ZRINIT" => x.st = "try")
    PROVE  Inv' /\ UNCHANGED <<held, whole, rlog>>
  <1>1. ZTyped /\ Hands /\ Offers /\ Names /\ Begun
    BY DEF Inv
  <1>2. /\ r' = x /\ UNCHANGED <<link, s, slog, passed, held, whole, rlog, declined>>
        /\ Behind(toR', toR)
    BY AnswersEffect DEF NoFileStep, disk
  <1>3. Frames'
    BY FramesTaken
  <1>4. Place' /\ Past'
    BY <1>2, PlaceKept
  <1>5. Hands'
    BY <1>1, <1>2 DEF Hands, Receiving
  <1>6. Offers'
    BY <1>1, <1>2, LineLeft
  <1>7. Names' /\ Begun'
    <2>1. Names'
      BY <1>1, <1>2 DEF Names, Receiving
    <2>2. Begun'
      BY <1>1, <1>2 DEF Begun, ZFile
    <2> QED
      BY <2>1, <2>2
  <1>8. Inv'
    BY <1>1, <1>2, <1>3, <1>4, <1>5, <1>6, <1>7, ReceiverKept DEF ZTyped
  <1> QED
    BY <1>2, <1>8

\* A receiver in a file, whose beginning it has, goes on.
LEMMA FileKept ==
    ASSUME Inv, Receiving, NEW x \in ReceiversAt, NEW rest \in {toR, Tail(toR), <<>>}, NEW p,
           Answers(x, rest, p), toR = <<>> => rest = toR, UNCHANGED <<whole, rlog, declined>>,
           x.st \in {"head", "data", "eat"}, x.file = r.file, x.name = r.name, x.fd \in {"open", "bad"},
           x.pos <= Size[Current], x.fd = "open" => x.pos <= Len(held'[Current]),
           held' = [f \in Files |-> held'[f]], \A f \in Files : f # Current => held'[f] = held[f],
           \E n \in 0..Size[Current] : held'[Current] = SubSeq(ZFile(Current), 1, n),
           p = <<>> \/ \E m \in PacketsS : p = <<m>>,
           \A m : p = <<m>> => m.type # "ZRINIT" /\ (m.type = "ZRPOS" => m.pos <= Size[Current]),
           Frames'
    PROVE  Inv'
  <1>1. ZTyped /\ Hands /\ Offers /\ Names /\ Begun
    BY DEF Inv
  <1>2. /\ InJob /\ r.file = Current /\ Current \notin declined /\ Current \notin whole /\ FitsAfter(0)
        /\ declined \subseteq Files
    BY <1>1 DEF Hands, ZTyped
  <1>3. /\ r' = x /\ UNCHANGED <<link, s, slog, passed>> /\ Current' = Current /\ (InJob' <=> InJob)
        /\ Behind(toR', toR)
    BY AnswersEffect
  <1>4. Place' /\ Past'
    BY <1>2, <1>3, PlaceKept
  <1>5. Hands'
    <2>1. FitsAfter(0)'
      BY <1>1, <1>2, <1>3, LineLeft
    <2> QED
      BY <1>2, <1>3, <2>1 DEF Hands, Receiving
  <1>6. Offers'
    BY <1>1, <1>3, LineLeft
  <1>7. Names'
    BY <1>1, <1>3 DEF Names, Receiving
  <1>8. Begun'
    <2> SUFFICES ASSUME NEW f \in Files PROVE \E n \in 0..Size[f] : held'[f] = SubSeq(ZFile(f), 1, n)
      BY DEF Begun, ZFile
    <2> QED
      BY <1>1 DEF Begun
  <1>9. x.st # "try"
    OBVIOUS
  <1>10. rlog' \in [Files -> 0..2] /\ whole' \subseteq Files /\ whole \subseteq whole' /\ declined' \subseteq Files
    BY <1>1 DEF ZTyped
  <1> QED
    BY <1>2, <1>4, <1>5, <1>6, <1>7, <1>8, <1>9, <1>10, ReceiverKept

\* It goes on and writes nothing.
LEMMA StayKept ==
    ASSUME Inv, Receiving, NEW x \in ReceiversAt, NEW rest \in {toR, Tail(toR), <<>>}, NEW p,
           Answers(x, rest, p), toR = <<>> => rest = toR, NoFileStep,
           x.st \in {"head", "data", "eat"}, x.file = r.file, x.name = r.name, x.fd = r.fd, x.pos = r.pos,
           p = <<>> \/ p = <<HdrAt("ZRPOS", r.pos)>> \/ p = <<Hdr("ZNAK")>>,
           x.st # "data" \/ Frames'
    PROVE  Inv' /\ UNCHANGED <<held, whole, rlog>>
  <1>1. UNCHANGED <<held, whole, rlog, declined>>
    BY DEF NoFileStep, disk
  <1>2. /\ InJob /\ r.file = Current /\ r.fd \in {"open", "bad"} /\ r.pos <= Size[Current]
        /\ r.fd = "open" => r.pos <= Len(held[Current])
        /\ Current \in Files /\ held = [f \in Files |-> held[f]] /\ r.pos \in Nat
    BY ListType DEF Inv, Hands, ZTyped, ReceiversAt
  <1>3. \E n \in 0..Size[Current] : held[Current] = SubSeq(ZFile(Current), 1, n)
    BY <1>2 DEF Inv, Begun
  <1>4. p = <<>> \/ \E m \in PacketsS : p = <<m>>
    BY <1>2, PacketTypes
  <1>5. \A m : p = <<m>> => m.type # "ZRINIT" /\ (m.type = "ZRPOS" => m.pos <= Size[Current])
    BY <1>2 DEF HdrAt, Hdr
  <1>6. Frames'
    BY FramesTaken
  <1>7. x.fd \in {"open", "bad"} /\ x.pos <= Size[Current] /\ (x.fd = "open" => x.pos <= Len(held'[Current]))
    BY <1>1, <1>2
  <1>8. /\ held' = [f \in Files |-> held'[f]] /\ \A f \in Files : f # Current => held'[f] = held[f]
        /\ \E n \in 0..Size[Current] : held'[Current] = SubSeq(ZFile(Current), 1, n)
    BY <1>1, <1>2, <1>3
  <1>9. UNCHANGED <<whole, rlog, declined>>
    BY <1>1
  <1>10. Inv'
    BY <1>4, <1>5, <1>6, <1>7, <1>8, <1>9, FileKept
  <1> QED
    BY <1>1, <1>10

\* It gives up; what it could not write is thrown away.
LEMMA GivenUp ==
    ASSUME Inv, Receiving, NEW rest \in {toR, Tail(toR), <<>>}, toR = <<>> => rest = toR,
           Answers([r EXCEPT !.st = "failed", !.fd = "none"], rest, <<Hdr("CAN")>>),
           UNCHANGED <<declined, rlog>>, UNCHANGED disk \/ Unlinked(r.file)
    PROVE  Inv' /\ (UNCHANGED <<held, whole, rlog>> \/ Way!TNext)
  <1> DEFINE x == [r EXCEPT !.st = "failed", !.fd = "none"]
             p == <<Hdr("CAN")>>
  <1>1. ZTyped /\ Hands /\ Offers /\ Names /\ Begun
    BY DEF Inv
  <1>2. /\ InJob /\ r.file = Current /\ Current \notin declined /\ Current \notin whole
        /\ declined \subseteq Files /\ whole \subseteq Files /\ Current \in Files /\ held = [f \in Files |-> held[f]]
        /\ rlog \in [Files -> 0..2]
    BY <1>1, ListType DEF Hands, ZTyped
  <1>3. Answers(x, rest, p) /\ x \in ReceiversAt /\ x.st = "failed" /\ x.fd = "none" /\ Over(x)
    BY <1>1 DEF ZTyped, ReceiversAt, Over
  <1>4. (\E m \in PacketsS : p = <<m>>) /\ \A m : p = <<m>> => m.type = "CAN"
    BY PacketTypes DEF Hdr
  <1> HIDE DEF x, p
  <1>5. /\ r' = x /\ UNCHANGED <<link, s, slog, passed>> /\ Current' = Current /\ (InJob' <=> InJob)
        /\ Behind(toR', toR) /\ toR' = <<>>
    BY <1>3, AnswersEffect DEF Answers
  <1>6. whole' = whole /\ (held' = held \/ held' = [held EXCEPT ![Current] = <<>>])
    <2>1. CASE UNCHANGED disk
      BY <2>1 DEF disk
    <2>2. CASE Unlinked(r.file)
      <3>1. held' = [held EXCEPT ![Current] = <<>>] /\ whole' = whole \ {Current}
        BY <1>2, <2>2 DEF Unlinked
      <3>2. whole \ {Current} = whole
        BY <1>2
      <3> QED
        BY <3>1, <3>2
    <2> QED
      BY <2>1, <2>2
  <1>7. Place' /\ Past'
    BY <1>2, <1>5, <1>6, PlaceKept
  <1>8. Hands' /\ Offers' /\ Names'
    BY <1>3, <1>5 DEF Hands, Offers, Names, Receiving
  <1>9. Begun'
    <2> SUFFICES ASSUME NEW f \in Files PROVE \E n \in 0..Size[f] : held'[f] = SubSeq(ZFile(f), 1, n)
      BY DEF Begun, ZFile
    <2>1. CASE held'[f] = held[f]
      BY <1>1, <2>1 DEF Begun
    <2>2. CASE held'[f] = <<>>
      <3>1. Size[f] \in Nat /\ SubSeq(ZFile(f), 1, 0) = <<>>
        BY ContentOf, 0 \in Nat, 0 + 1 = 1
      <3> QED
        BY <2>2, <3>1
    <2> QED
      BY <1>2, <1>6, <2>1, <2>2
  <1>10. Frames'
    BY <1>3, FramesTaken
  <1>11. held' = [f \in Files |-> held'[f]]
    BY <1>2, <1>6
  <1>12. Inv'
    BY ZenonT(30), <1>2, <1>3, <1>4, <1>6, <1>7, <1>8, <1>9, <1>10, <1>11, ReceiverKept
  <1>13. CASE held' = held
    BY <1>6, <1>12, <1>13
  <1>14. CASE held' = [held EXCEPT ![Current] = <<>>]
    <2>1. Way!Discard(Current)
      BY <1>2, <1>6, <1>14 DEF Way!Discard
    <2>2. Current \in Way!Sendable
      BY <1>2 DEF Way!Sendable
    <2> QED
      BY <1>12, <2>1, <2>2 DEF Way!TNext
  <1> QED
    BY <1>6, <1>13, <1>14

LEMMA QuitKept ==
    ASSUME Inv, ClosedTwice = {"stop"}, NEW rest \in {toR, Tail(toR), <<>>}, toR = <<>> => rest = toR,
           Quit(rest)
    PROVE  Inv' /\ (UNCHANGED <<held, whole, rlog>> \/ Way!TNext)
  <1>1. /\ Answers([r EXCEPT !.st = "failed", !.fd = "none"], rest, <<Hdr("CAN")>>) /\ UNCHANGED declined
        /\ CASE r.fd \in {"none", "open"} -> UNCHANGED <<disk, rlog>>
             [] r.fd = "bad" -> Unlinked(r.file) /\ UNCHANGED rlog
             [] r.fd = "closed" -> UNCHANGED <<disk, rlog>>
    BY DEF Quit
  <1>2. r \in ReceiversAt /\ r.fd \in {"none", "open", "bad", "closed"} /\ Hands
    BY DEF Inv, ZTyped, ReceiversAt
  <1>3. CASE Receiving
    BY <1>1, <1>2, <1>3, GivenUp DEF Hands
  <1>4. CASE ~Receiving
    <2> DEFINE x == [r EXCEPT !.st = "failed", !.fd = "none"]
               p == <<Hdr("CAN")>>
    <2>1. Answers(x, rest, p)
      BY <1>1
    <2>2. r.fd \in {"none", "closed"}
      BY <1>2, <1>4 DEF Hands
    <2>3. NoFileStep
      BY <1>1, <2>2 DEF NoFileStep
    <2>4. x \in ReceiversAt /\ x.st = "failed" /\ x.fd = "none" /\ x.name = r.name
      BY <1>2 DEF ReceiversAt
    <2>5. (\E m \in PacketsS : p = <<m>>) /\ \A m : p = <<m>> => m.type = "CAN"
      BY PacketTypes DEF Hdr
    <2> HIDE DEF x, p
    <2>6. Inv' /\ UNCHANGED <<held, whole, rlog>>
      BY <1>4, <2>1, <2>3, <2>4, <2>5, IdleKept
    <2> QED
      BY <2>6
  <1> QED
    BY <1>3, <1>4

\* The first packet, and the line behind it.
LEMMA First ==
    ASSUME Inv, toR # <<>>
    PROVE  /\ toR \in Seq(PacketsR) /\ Len(toR) \in Nat /\ 1 \in 1..Len(toR)
           /\ Head(toR) = toR[1] /\ toR[1] \in PacketsR /\ Rest = Tail(toR)
           /\ Len(Tail(toR)) = Len(toR) - 1
           /\ \A k \in 1 .. Len(toR) - 1 : Tail(toR)[k] = toR[k + 1] /\ k + 1 \in 1..Len(toR)
  BY DEF Inv, ZTyped, Rest

\* A receiver that calls for a file gets the sender's file, or one it declined.
LEMMA OfferedFile ==
    ASSUME Inv, Gets("ZFILE")
    PROVE  /\ Head(toR).file \in Files
           /\ \/ Head(toR).file \in declined
              \/ InJob /\ Head(toR).file = Current /\ Current \notin whole /\ FitsAfter(1)
           /\ Elsewhere(Head(toR).file) \/ Head(toR).file \notin declined
  <1>1. toR # <<>> /\ toR[1].type = "ZFILE"
    BY First DEF Gets
  <1>2. toR[1].file \in Files /\ Head(toR) = toR[1] /\ 1 \in 1..Len(toR)
    BY <1>1, First, FieldsR
  <1> QED
    BY <1>1, <1>2 DEF Inv, Offers, Past

LEMMA Declines ==
    ASSUME Inv, r.st = "try", Gets("ZFILE"), UNCHANGED <<disk, rlog>>, Elsewhere(Head(toR).file),
           declined' = declined \cup {Head(toR).file},
           Answers([Call(r) EXCEPT !.fd = "none"], Rest, <<Hdr("ZSKIP")>>)
    PROVE  Inv' /\ UNCHANGED <<held, whole, rlog>>
  <1> DEFINE x == [Call(r) EXCEPT !.fd = "none"]
             p == <<Hdr("ZSKIP")>>
             f == Head(toR).file
  <1>0. toR # <<>> /\ Rest = Tail(toR)
    BY First DEF Gets
  <1>1. Answers(x, Tail(toR), p) /\ UNCHANGED <<held, whole, rlog>>
    BY <1>0 DEF disk
  <1>2. /\ ZTyped /\ Place /\ Past /\ Hands /\ Offers /\ Names /\ Begun /\ Replies
        /\ L \in Seq(Files) /\ Len(L) \in Nat /\ s.job \in Nat /\ \A i, j \in 1..Len(L) : L[i] = L[j] => i = j
        /\ r \in ReceiversAt /\ Tries.call \in Int /\ ~Receiving
    BY ListType, TriesAssumption DEF Inv, ZTyped, Receiving
  <1>3. x \in ReceiversAt /\ x.st = "try" /\ x.fd = "none" /\ x.name = r.name
    BY <1>2 DEF Call, ReceiversAt
  <1>4. (\E m \in PacketsS : p = <<m>>) /\ \A m : p = <<m>> => m.type = "ZSKIP"
    BY PacketTypes DEF Hdr
  <1>5. /\ f \in Files
        /\ f \in declined \/ (InJob /\ f = Current /\ Current \notin whole)
        /\ Elsewhere(f) /\ declined' = declined \cup {f}
    BY OfferedFile
  <1> HIDE DEF x, p, f
  <1>6. /\ r' = x /\ UNCHANGED <<link, s, slog, passed>>
        /\ L' = L /\ Current' = Current /\ (InJob' <=> InJob) /\ Behind(toR', toR)
    BY <1>0, <1>1, AnswersEffect
  <1>7. f \notin declined => ~Sending /\ \A i \in 1..Len(toS) : toS[i].type # "ZRPOS"
    BY <1>2, <1>5 DEF Replies
  <1>8. Place'
    BY <1>1, <1>2, <1>6 DEF Place, Sending
  <1>9. Past'
    <2>1. s.st \notin {"failed", "killed"} => slog[f] = 0
      <3>1. CASE f \in declined
        BY <1>2, <3>1 DEF Past
      <3>2. CASE f \notin declined /\ s.st \notin {"failed", "killed"}
        <4>1. s.st \notin {"head", "data", "sent", "sync", "ack", "eof"}
          BY <1>7, <3>2 DEF Sending
        <4>2. s.st \in {"init", "file", "fin", "cmd", "ok"}
          BY <1>2, <3>2, <4>1 DEF ZTyped, SendersAt
        <4>3. s.job \in 1..Len(L) /\ f = Current
          BY <1>5, <3>2 DEF InJob
        <4> QED
          BY <1>2, <4>2, <4>3 DEF Place
      <3> QED
        BY <3>1, <3>2
    <2>2. \A i \in 1..Len(L) : i > s.job => L[i] # f \/ f \in declined
      BY <1>2, <1>5 DEF InJob, Current, L
    <2>3. \A g \in Files : Elsewhere(g)' <=> Elsewhere(g)
      BY <1>1, <1>6 DEF Elsewhere
    <2>4. declined \subseteq Files
      BY <1>2 DEF ZTyped
    <2>5. \A i \in 1..Len(L) : i > s.job => slog[L[i]] = 0 /\ L[i] \notin whole /\ L[i] \notin declined'
      BY <1>2, <1>5, <2>2 DEF Past
    <2>6. \A g \in declined' : Elsewhere(g) /\ (s.st \notin {"failed", "killed"} => slog[g] = 0)
      BY <1>2, <1>5, <2>1 DEF Past
    <2>7. \A g \in declined' : Elsewhere(g)' /\ (s.st \notin {"failed", "killed"} => slog[g] = 0)
      BY <1>5, <2>3, <2>4, <2>6
    <2>8. \A i \in 1..Len(L) : i < s.job => L[i] \in whole \/ (L[i] \in passed /\ slog[L[i]] = 0)
      BY <1>2 DEF Past
    <2> QED
      BY <1>1, <1>6, <2>5, <2>7, <2>8 DEF Past
  <1>10. Hands'
    BY <1>3, <1>6 DEF Hands, Receiving
  <1>11. Offers'
    BY <1>1, <1>2, <1>5, <1>6, LineLeft
  <1>12. Names'
    BY <1>1, <1>2, <1>3, <1>6 DEF Names, Receiving
  <1>13. Begun'
    BY <1>1, <1>2 DEF Begun, ZFile
  <1>14. Frames'
    BY <1>0, <1>1, <1>3, FramesTaken
  <1>15. /\ held' = [g \in Files |-> held'[g]] /\ rlog' \in [Files -> 0..2] /\ whole' \subseteq Files /\ declined' \subseteq Files
         /\ whole \subseteq whole'
    BY <1>1, <1>2, <1>5 DEF ZTyped
  <1>16. Current \in declined' =>
              Current \in declined \/ (~Sending /\ \A i \in 1..Len(toS) : toS[i].type # "ZRPOS")
    BY <1>5, <1>7
  <1>17. Inv'
    BY <1>0, <1>1, <1>2, <1>3, <1>4, <1>8, <1>9, <1>10, <1>11, <1>12, <1>13, <1>14, <1>15, <1>16, ReceiverKept
  <1> QED
    BY <1>1, <1>17

LEMMA Takes ==
    ASSUME Inv, r.st = "try", Gets("ZFILE"), UNCHANGED <<disk, rlog, declined>>, ~Elsewhere(Head(toR).file),
           Asks(Take(Head(toR).file), Rest)
    PROVE  Inv' /\ UNCHANGED <<held, whole, rlog>>
  <1> DEFINE f == Head(toR).file
             y == Take(f)
             x == [y EXCEPT !.st = "head"]
             p == <<HdrAt("ZRPOS", y.pos)>>
  <1>0. toR # <<>> /\ Rest = Tail(toR)
    BY First DEF Gets
  <1>1. Answers(x, Tail(toR), p) /\ UNCHANGED <<held, whole, rlog, declined>>
    BY <1>0 DEF disk, Asks, Wanted
  <1>2. /\ ZTyped /\ Place /\ Past /\ Hands /\ Offers /\ Names /\ Begun /\ Replies
        /\ r \in ReceiversAt /\ Tries.pos \in Int /\ ~Receiving
    BY TriesAssumption DEF Inv, ZTyped, Receiving
  <1>3. /\ f \in Files /\ f \notin declined /\ InJob /\ f = Current /\ Current \notin whole /\ FitsAfter(1)
        /\ Size[f] \in Nat
    BY <1>2, OfferedFile, ContentOf
  <1>4. PICK n \in 0..Size[f] : held[f] = SubSeq(ZFile(f), 1, n)
    BY <1>2, <1>3 DEF Begun
  <1>5. Len(held[f]) = n /\ n \in Nat
    <2>1. ZFile(f) \in Seq({<<f, b>> : b \in Nat}) /\ Len(ZFile(f)) = Size[f]
      BY <1>3, ContentOf
    <2> QED
      BY <1>3, <1>4, <2>1
  <1>6. n > 0 => Resume(n) \in 0..n
    BY <1>5 DEF Resume
  <1>7. PICK q \in 0..n : y = [r EXCEPT !.file = f, !.name = y.name, !.pos = q, !.fd = "open", !.tries = Tries.pos]
                       /\ y.name \in {r.name, f}
    <2>1. CASE held[f] # <<>>
      <3>1. n > 0
        BY <1>3, <1>4, <1>5, <2>1, ContentOf
      <3>2. y = [r EXCEPT !.file = f, !.pos = Resume(n), !.fd = "open", !.tries = Tries.pos]
        BY <1>5, <2>1 DEF Take
      <3> HIDE DEF y
      <3>3. y = [r EXCEPT !.file = f, !.name = y.name, !.pos = Resume(n), !.fd = "open", !.tries = Tries.pos]
            /\ y.name = r.name
        BY <1>2, <3>2 DEF ReceiversAt
      <3> QED
        BY <1>6, <3>1, <3>3
    <2>2. CASE held[f] = <<>>
      <3>2. y = [r EXCEPT !.file = f, !.name = f, !.pos = 0, !.fd = "open", !.tries = Tries.pos]
        BY <2>2 DEF Take
      <3> HIDE DEF y
      <3>3. y.name = f
        BY <1>2, <3>2 DEF ReceiversAt
      <3>4. y = [r EXCEPT !.file = f, !.name = y.name, !.pos = 0, !.fd = "open", !.tries = Tries.pos]
        BY <3>2, <3>3
      <3>5. 0 \in 0..n /\ y.name \in {r.name, f}
        BY <1>5, <3>3
      <3> HIDE DEF f
      <3> QED
        BY <3>4, <3>5
    <2> QED
      BY <2>1, <2>2
  <1> HIDE DEF y
  <1>8. q \in Nat /\ q <= n /\ q <= Size[f]
    BY <1>3, <1>4, <1>5
  <1>9. /\ x \in ReceiversAt /\ x.st = "head" /\ x.fd = "open" /\ x.pos = q /\ x.file = f
        /\ x.name \in {r.name, f} /\ y.pos = q
    BY <1>2, <1>3, <1>7, <1>8 DEF ReceiversAt
  <1>10. (\E m \in PacketsS : p = <<m>>) /\ \A m : p = <<m>> => m.type = "ZRPOS" /\ m.pos = q
    <2>1. HdrAt("ZRPOS", q) \in PacketsS /\ p = <<HdrAt("ZRPOS", q)>>
      BY <1>8, <1>9, PacketTypes
    <2> HIDE DEF p, x, f
    <2> QED
      BY <2>1 DEF HdrAt
  <1> HIDE DEF x, p, f
  <1>11. /\ r' = x /\ UNCHANGED <<link, s, slog, passed>>
         /\ L' = L /\ Current' = Current /\ (InJob' <=> InJob) /\ Behind(toR', toR) /\ toR' = Tail(toR)
    <2>1. ~Over(x)
      BY <1>9 DEF Over
    <2> QED
      BY <1>0, <1>1, <2>1, AnswersEffect DEF Answers
  <1>12. Place' /\ Past'
    BY <1>1, <1>11, PlaceKept
  <1>13. Hands'
    <2>1. FitsAfter(0)'
      <3>1. \A m : Fits(m)' <=> Fits(m)
        BY <1>11 DEF Fits, FitsAs
      <3>2. ASSUME NEW k \in 1..Len(toR') PROVE Fits(toR'[k])
        <4>1. toR'[k] = toR[k + 1] /\ k + 1 \in 1..Len(toR) /\ k + 1 > 1
          BY <1>0, <1>11, First
        <4> QED
          BY <1>3, <4>1 DEF FitsAfter
      <3>3. ASSUME NEW i \in 1..Len(toR'), NEW k \in 1..Len(toR'), i < k,
                   toR'[i].type = "ZEOF", toR'[k].type = "ZFILE"
            PROVE  FALSE
        <4>1. /\ toR'[k] = toR[k + 1] /\ k + 1 \in 1..Len(toR) /\ toR'[i] = toR[i + 1] /\ i + 1 \in 1..Len(toR)
              /\ 1 < i + 1 /\ i + 1 < k + 1
          BY <1>0, <1>11, <3>3, First
        <4> QED
          BY <1>3, <3>3, <4>1 DEF FitsAfter
      <3> QED
        BY <3>1, <3>2, <3>3 DEF FitsAfter
    <2>2. /\ r'.st = "head" /\ r'.file = Current /\ r'.fd = "open" /\ r'.pos <= Size[r'.file]
          /\ r'.pos <= Len(held'[r'.file])
      BY <1>1, <1>3, <1>5, <1>8, <1>9, <1>11
    <2> QED
      BY <1>1, <1>3, <1>11, <2>1, <2>2 DEF Hands, Receiving
  <1>14. Offers'
    BY <1>1, <1>2, <1>11, LineLeft
  <1>15. Names'
    BY <1>1, <1>2, <1>9, <1>11 DEF Names, Receiving
  <1>16. Begun'
    BY <1>1, <1>2 DEF Begun, ZFile
  <1>17. Frames'
    BY <1>0, <1>1, <1>9, FramesTaken
  <1>18. /\ held' = [g \in Files |-> held'[g]] /\ rlog' \in [Files -> 0..2] /\ whole' \subseteq Files /\ declined' \subseteq Files
         /\ whole \subseteq whole'
    BY <1>1, <1>2 DEF ZTyped
  <1>19. Inv'
    BY <1>0, <1>1, <1>3, <1>8, <1>9, <1>10, <1>12, <1>13, <1>14, <1>15, <1>16, <1>17, <1>18, ReceiverKept
  <1> QED
    BY <1>1, <1>19

LEMMA TryFileKept ==
    ASSUME Inv, TryFile
    PROVE  Inv' /\ UNCHANGED <<held, whole, rlog>>
  <1>1. CASE Elsewhere(Head(toR).file)
    BY <1>1, Declines DEF TryFile
  <1>2. CASE ~Elsewhere(Head(toR).file)
    BY <1>2, Takes DEF TryFile
  <1> QED
    BY <1>1, <1>2

LEMMA AsksKept ==
    ASSUME Inv, Receiving, NEW y \in {r, [r EXCEPT !.tries = @ - 1]}, NEW rest \in {toR, Tail(toR), <<>>},
           toR = <<>> => rest = toR, Asks(y, rest), NoFileStep
    PROVE  Inv' /\ UNCHANGED <<held, whole, rlog>>
  <1> DEFINE x == [y EXCEPT !.st = "head"]
             p == <<HdrAt("ZRPOS", y.pos)>>
  <1>1. Answers(x, rest, p)
    BY DEF Asks, Wanted
  <1>2. r \in ReceiversAt
    BY DEF Inv, ZTyped
  <1>3. y \in ReceiversAt /\ y.file = r.file /\ y.name = r.name /\ y.fd = r.fd /\ y.pos = r.pos
    BY <1>2 DEF ReceiversAt
  <1>4. /\ x \in ReceiversAt /\ x.st = "head" /\ x.file = r.file /\ x.name = r.name /\ x.fd = r.fd
        /\ x.pos = r.pos
    BY <1>3 DEF ReceiversAt
  <1>5. p = <<HdrAt("ZRPOS", r.pos)>>
    BY <1>3
  <1> HIDE DEF x, p
  <1> QED
    BY <1>1, <1>4, <1>5, StayKept

LEMMA AgainKept ==
    ASSUME Inv, ClosedTwice = {"stop"}, Receiving, NEW rest \in {toR, Tail(toR), <<>>},
           toR = <<>> => rest = toR, Again(rest)
    PROVE  Inv' /\ (UNCHANGED <<held, whole, rlog>> \/ Way!TNext)
  <1>1. CASE r.tries = 0
    BY <1>1, QuitKept DEF Again
  <1>2. CASE r.tries # 0
    BY <1>2, AsksKept DEF Again
  <1> QED
    BY <1>1, <1>2

\* The receiver takes the ZNAK of the sender, or a silence, for the end of a frame.
LEMMA EatsKept ==
    ASSUME Inv, ClosedTwice = {"stop"}, r.st = "head", NEW rest \in {toR, Tail(toR), <<>>},
           toR = <<>> => rest = toR,
           IF r.tries = 0 THEN Quit(rest)
           ELSE Answers([r EXCEPT !.tries = @ - 1, !.st = "eat"], rest, <<>>) /\ NoFileStep
    PROVE  Inv' /\ (UNCHANGED <<held, whole, rlog>> \/ Way!TNext)
  <1> DEFINE x == [r EXCEPT !.tries = @ - 1, !.st = "eat"]
  <1>1. CASE r.tries = 0
    BY <1>1, QuitKept
  <1>2. CASE r.tries # 0
    <2>1. Answers(x, rest, <<>>) /\ NoFileStep
      BY <1>2
    <2>2. r \in ReceiversAt /\ Receiving
      BY DEF Inv, ZTyped, Receiving
    <2>3. /\ x \in ReceiversAt /\ x.st = "eat" /\ x.file = r.file /\ x.name = r.name /\ x.fd = r.fd
          /\ x.pos = r.pos
      <3>1. r.tries - 1 \in Int
        BY <2>2 DEF ReceiversAt
      <3>2. PICK n \in Int : x = [r EXCEPT !.tries = n, !.st = "eat"]
        BY <3>1
      <3> HIDE DEF x
      <3> QED
        BY <2>2, <3>2 DEF ReceiversAt
    <2> HIDE DEF x
    <2>4. Inv' /\ UNCHANGED <<held, whole, rlog>>
      BY <2>1, <2>2, <2>3, StayKept
    <2> QED
      BY <2>4
  <1> QED
    BY <1>1, <1>2

LEMMA CallAgainKept ==
    ASSUME Inv, ClosedTwice = {"stop"}, r.st = "try", NEW rest \in {toR, Tail(toR), <<>>},
           toR = <<>> => rest = toR, CallAgain(rest)
    PROVE  Inv' /\ (UNCHANGED <<held, whole, rlog>> \/ Way!TNext)
  <1> DEFINE x == [r EXCEPT !.tries = @ - 1, !.hdr = "ZRINIT"]
             p == <<Hdr("ZRINIT")>>
  <1>1. CASE r.tries = 1
    BY <1>1, QuitKept DEF CallAgain
  <1>2. CASE r.tries # 1
    <2>1. Answers(x, rest, p) /\ NoFileStep
      BY <1>2 DEF CallAgain
    <2>2. r \in ReceiversAt /\ ~Receiving
      BY DEF Inv, ZTyped, Receiving
    <2>3. x \in ReceiversAt /\ x.st = "try" /\ x.fd = r.fd /\ x.name = r.name
      <3>1. r.tries - 1 \in Int
        BY <2>2 DEF ReceiversAt
      <3>2. PICK n \in Int : x = [r EXCEPT !.tries = n, !.hdr = "ZRINIT"]
        BY <3>1
      <3> HIDE DEF x
      <3> QED
        BY <2>2, <3>2 DEF ReceiversAt
    <2>4. (\E m \in PacketsS : p = <<m>>) /\ \A m : p = <<m>> => m.type = "ZRINIT"
      BY PacketTypes DEF Hdr
    <2> HIDE DEF x, p
    <2>5. Inv' /\ UNCHANGED <<held, whole, rlog>>
      BY <2>1, <2>2, <2>3, <2>4, IdleKept
    <2> QED
      BY <2>5
  <1> QED
    BY <1>1, <1>2

LEMMA TryOtherKept ==
    ASSUME Inv, ClosedTwice = {"stop"}, TryOther
    PROVE  Inv' /\ (UNCHANGED <<held, whole, rlog>> \/ Way!TNext)
  <1>1. r.st = "try" /\ toR # <<>> /\ Rest = Tail(toR) /\ r \in ReceiversAt /\ ~Receiving
    BY DEF TryOther, Rest, Inv, ZTyped, Receiving
  <1>2. ASSUME NEW x \in ReceiversAt, x.st \in {"try", "fin", "ok"}, x.fd = r.fd, x.name = r.name,
               NEW p, p = <<>> \/ \E t \in {"ZFIN", "ZCOMPL", "ZNAK"} : p = <<Hdr(t)>>,
               NEW rest \in {Tail(toR), <<>>}, Answers(x, rest, p), NoFileStep
        PROVE  Inv' /\ UNCHANGED <<held, whole, rlog>>
    <2>1. /\ p = <<>> \/ \E m \in PacketsS : p = <<m>>
          /\ \A m : p = <<m>> => m.type \in {"ZFIN", "ZCOMPL", "ZNAK"}
      <3>1. CASE p = <<>>
        BY <3>1
      <3>2. ASSUME NEW t \in {"ZFIN", "ZCOMPL", "ZNAK"}, p = <<Hdr(t)>>
            PROVE  (\E m \in PacketsS : p = <<m>>) /\ \A m : p = <<m>> => m.type = t
        BY <3>2, PacketTypes DEF Hdr
      <3> QED
        BY <1>2, <3>1, <3>2
    <2> QED
      BY <1>1, <1>2, <2>1, IdleKept
  <1>3. \/ Answers([r EXCEPT !.st = "fin", !.tries = Tries.fin], <<>>, <<Hdr("ZFIN")>>) /\ NoFileStep
        \/ Answers([r EXCEPT !.st = "ok"], Rest, <<Hdr("ZCOMPL")>>) /\ NoFileStep
        \/ Quit(Rest) \/ CallAgain(Rest)
        \/ Answers(r, Rest, <<>>) /\ NoFileStep
        \/ Answers(r, Rest, <<Hdr("ZNAK")>>) /\ NoFileStep
    BY DEF TryOther
  <1>4. CASE Answers([r EXCEPT !.st = "fin", !.tries = Tries.fin], <<>>, <<Hdr("ZFIN")>>) /\ NoFileStep
    <2> DEFINE x == [r EXCEPT !.st = "fin", !.tries = Tries.fin]
    <2>1. Tries.fin \in Int
      BY TriesAssumption
    <2>2. x \in ReceiversAt /\ x.st = "fin" /\ x.fd = r.fd /\ x.name = r.name
      BY <1>1, <2>1 DEF ReceiversAt
    <2>3. Answers(x, <<>>, <<Hdr("ZFIN")>>)
      BY <1>4
    <2> HIDE DEF x
    <2> QED
      BY <1>2, <1>4, <2>2, <2>3
  <1>5. CASE Answers([r EXCEPT !.st = "ok"], Rest, <<Hdr("ZCOMPL")>>) /\ NoFileStep
    <2> DEFINE x == [r EXCEPT !.st = "ok"]
    <2>1. x \in ReceiversAt /\ x.st = "ok" /\ x.fd = r.fd /\ x.name = r.name
      BY <1>1 DEF ReceiversAt
    <2>2. Answers(x, Tail(toR), <<Hdr("ZCOMPL")>>)
      BY <1>1, <1>5
    <2> HIDE DEF x
    <2> QED
      BY <1>2, <1>5, <2>1, <2>2
  <1>6. CASE Answers(r, Rest, <<>>) /\ NoFileStep
    BY <1>1, <1>2, <1>6
  <1>7. CASE Answers(r, Rest, <<Hdr("ZNAK")>>) /\ NoFileStep
    BY <1>1, <1>2, <1>7
  <1>8. CASE Quit(Rest)
    BY <1>1, <1>8, QuitKept
  <1>9. CASE CallAgain(Rest)
    BY <1>1, <1>9, CallAgainKept
  <1> QED
    BY <1>3, <1>4, <1>5, <1>6, <1>7, <1>8, <1>9

LEMMA RecvFinKept ==
    ASSUME Inv, r.st = "fin", NoFileStep,
           \/ Answers([r EXCEPT !.st = "ok"], <<>>, <<>>)
           \/ Answers([r EXCEPT !.tries = @ - 1], <<>>, <<Hdr("ZFIN")>>)
    PROVE  Inv' /\ UNCHANGED <<held, whole, rlog>>
  <1>1. r \in ReceiversAt /\ ~Receiving
    BY DEF Inv, ZTyped, Receiving
  <1>2. CASE Answers([r EXCEPT !.st = "ok"], <<>>, <<>>)
    <2> DEFINE x == [r EXCEPT !.st = "ok"]
    <2>1. x \in ReceiversAt /\ x.st = "ok" /\ x.fd = r.fd /\ x.name = r.name /\ Answers(x, <<>>, <<>>)
      BY <1>1, <1>2 DEF ReceiversAt
    <2> HIDE DEF x
    <2> QED
      BY <1>1, <2>1, IdleKept
  <1>3. CASE Answers([r EXCEPT !.tries = @ - 1], <<>>, <<Hdr("ZFIN")>>)
    <2> DEFINE x == [r EXCEPT !.tries = @ - 1]
               p == <<Hdr("ZFIN")>>
    <2>1. x \in ReceiversAt /\ x.st = "fin" /\ x.fd = r.fd /\ x.name = r.name /\ Answers(x, <<>>, p)
      BY <1>1, <1>3 DEF ReceiversAt
    <2>2. (\E m \in PacketsS : p = <<m>>) /\ \A m : p = <<m>> => m.type = "ZFIN"
      BY PacketTypes DEF Hdr
    <2> HIDE DEF x, p
    <2> QED
      BY <1>1, <2>1, <2>2, IdleKept
  <1> QED
    BY <1>2, <1>3

\* A step of the promise is about one file.
LEMMA OneFile ==
    ASSUME NEW f \in Files, Way!Grow(f) \/ Way!Discard(f) \/ Way!Finish(f) \/ Way!Log(f)
    PROVE  Way!TNext
  <1>1. f \in Way!Sendable
    BY DEF Way!Sendable
  <1> QED
    BY <1>1 DEF Way!TNext

LEMMA Closed ==
    ASSUME NEW f \in Files, held[f] = ZFile(f), held' = held, whole' = whole \cup {f},
           {g \in Files : rlog'[g] > 0} \in {{g \in Files : rlog[g] > 0}, {g \in Files : rlog[g] > 0} \cup {f}}
    PROVE  Way!TNext
  <1>1. Way!Finish(f) \/ Way!Log(f)
    BY DEF Way!Finish, Way!Log
  <1> QED
    BY <1>1, OneFile

\* The end of the file, where the receiver is at its end: the file is whole.
LEMMA ClosesKept ==
    ASSUME Inv, r.st = "head", Gets("ZEOF"), InPlace(Head(toR).pos), r.fd = "open",
           whole' = whole \cup {r.file}, LogReceived, UNCHANGED <<held, declined>>,
           Answers([Call(r) EXCEPT !.fd = "closed"], Rest, <<Hdr("ZRINIT")>>)
    PROVE  Inv' /\ Way!TNext
  <1> DEFINE x == [Call(r) EXCEPT !.fd = "closed"]
             p == <<Hdr("ZRINIT")>>
  <1>0. toR # <<>> /\ Rest = Tail(toR)
    BY First DEF Gets
  <1>1. Answers(x, Tail(toR), p)
    BY <1>0
  <1>2. /\ ZTyped /\ Place /\ Past /\ Hands /\ Offers /\ Names /\ Begun /\ Replies
        /\ r \in ReceiversAt /\ Tries.call \in Int /\ Receiving
    BY TriesAssumption DEF Inv, ZTyped, Receiving
  <1>3. x \in ReceiversAt /\ x.st = "try" /\ x.fd = "closed" /\ x.name = r.name
    BY <1>2 DEF Call, ReceiversAt
  <1>4. (\E m \in PacketsS : p = <<m>>) /\ \A m : p = <<m>> => m.type = "ZRINIT"
    BY PacketTypes DEF Hdr
  <1> HIDE DEF x, p
  <1>5. /\ InJob /\ r.file = Current /\ Current \notin declined /\ Current \notin whole /\ FitsAfter(0)
        /\ r.pos <= Len(held[Current]) /\ Current \in Files /\ r.pos \in Nat
    BY <1>2, ListType DEF Hands, ReceiversAt
  <1>6. /\ toR[1].type = "ZEOF" /\ Fits(toR[1]) /\ s.st # "file" /\ r.pos = Size[Current]
        /\ \A k \in 2..Len(toR) : toR[k].type # "ZFILE"
    <2>1. toR[1].type = "ZEOF" /\ Head(toR) = toR[1] /\ 1 \in 1..Len(toR) /\ Len(toR) \in Nat
      BY <1>0, First DEF Gets
    <2>2. Fits(toR[1])
      BY <1>5, <2>1 DEF FitsAfter
    <2>3. \A k \in 2..Len(toR) : toR[k].type # "ZFILE"
      BY <1>5, <2>1 DEF FitsAfter
    <2> QED
      BY <2>1, <2>2, <2>3 DEF Fits, FitsAs, InPlace
  <1>7. held[Current] = ZFile(Current)
    <2>1. PICK n \in 0..Size[Current] : held[Current] = SubSeq(ZFile(Current), 1, n)
      BY <1>2, <1>5 DEF Begun
    <2>2. ZFile(Current) \in Seq({<<Current, b>> : b \in Nat}) /\ Len(ZFile(Current)) = Size[Current]
          /\ Size[Current] \in Nat
      BY <1>5, ContentOf
    <2>3. Len(held[Current]) = n
      BY <2>1, <2>2
    <2>4. n = Len(ZFile(Current))
      BY <1>5, <1>6, <2>2, <2>3
    <2> QED
      BY <2>1, <2>2, <2>4
  <1>8. /\ r' = x /\ UNCHANGED <<link, s, slog, passed>>
        /\ L' = L /\ Current' = Current /\ (InJob' <=> InJob) /\ Behind(toR', toR) /\ toR' = Tail(toR)
    <2>1. ~Over(x)
      BY <1>3 DEF Over
    <2> QED
      BY <1>0, <1>1, <2>1, AnswersEffect DEF Answers
  <1>9. whole' = whole \cup {Current} /\ held' = held /\ declined' = declined
    BY <1>5
  <1>10. Place' /\ Past'
    BY <1>5, <1>6, <1>8, <1>9, PlaceKept
  <1>11. Hands'
    BY <1>3, <1>8 DEF Hands, Receiving
  <1>12. Offers'
    <2>1. ASSUME NEW j \in 1..Len(toR') PROVE toR'[j].type # "ZFILE"
      <3>1. toR'[j] = toR[j + 1] /\ j + 1 \in 2..Len(toR)
        BY <1>0, <1>8, First
      <3> QED
        BY <1>6, <3>1
    <2> QED
      BY <2>1 DEF Offers
  <1>13. /\ rlog' \in [Files -> 0..2] /\ r.name \in Files \cup {NoFile} /\ rlog \in [Files -> 0..2]
         /\ r.name \in Files => rlog' = [rlog EXCEPT ![r.name] = ZLeast(@ + 1, 2)] /\ rlog'[r.name] > 0
         /\ r.name \notin Files => rlog' = rlog
    <2>1. r.name \in Files \cup {NoFile} /\ rlog \in [Files -> 0..2] /\ NoFile \notin Files
      BY <1>2, ZSizeAssumption DEF ZTyped, ReceiversAt
    <2>2. CASE r.name \notin Files
      BY <2>1, <2>2 DEF LogReceived
    <2>3. CASE r.name \in Files
      <3>1. rlog' = [rlog EXCEPT ![r.name] = ZLeast(@ + 1, 2)]
        BY <2>1, <2>3 DEF LogReceived
      <3>2. ZLeast(rlog[r.name] + 1, 2) \in 1..2
        BY <2>1, <2>3 DEF ZLeast
      <3> QED
        BY <2>1, <2>3, <3>1, <3>2
    <2> QED
      BY <2>2, <2>3
  <1>14. Names'
    BY <1>3, <1>8, <1>13 DEF Names
  <1>15. Begun'
    BY <1>2, <1>9 DEF Begun, ZFile
  <1>16. Frames'
    BY <1>0, <1>1, <1>3, FramesTaken
  <1>17. held' = [f \in Files |-> held'[f]] /\ whole' \subseteq Files /\ declined' \subseteq Files /\ whole \subseteq whole'
    BY <1>2, <1>5, <1>9 DEF ZTyped
  <1>18. Current \in declined' => Current \in declined
    BY <1>9
  <1>19. x.st = "try" => Current \in whole'
    BY <1>9
  <1>20. Inv'
    BY <1>0, <1>1, <1>3, <1>4, <1>10, <1>11, <1>12, <1>13, <1>14, <1>15, <1>16, <1>17, <1>18, <1>19, ReceiverKept
  <1>21. r.name = Current \/ r.name \notin Files \/ rlog[r.name] > 0
    BY <1>2, <1>5, ZSizeAssumption DEF Names, Receiving
  <1>22. {f \in Files : rlog'[f] > 0} \in {{f \in Files : rlog[f] > 0}, {f \in Files : rlog[f] > 0} \cup {Current}}
    <2>1. CASE r.name \notin Files
      BY <1>13, <2>1
    <2>2. CASE r.name \in Files /\ r.name # Current
      <3>1. \A f \in Files : rlog'[f] > 0 <=> rlog[f] > 0
        BY <1>13, <1>21, <2>2
      <3> QED
        BY <3>1
    <2>3. CASE r.name \in Files /\ r.name = Current
      <3>1. \A f \in Files : rlog'[f] > 0 <=> (rlog[f] > 0 \/ f = Current)
        BY <1>13, <2>3
      <3> QED
        BY <2>3, <3>1
    <2> QED
      BY <2>1, <2>2, <2>3
  <1>23. Way!TNext
    BY <1>5, <1>7, <1>9, <1>22, Closed
  <1> QED
    BY <1>20, <1>23

\* Between frames.
LEMMA RecvHeadKept ==
    ASSUME Inv, ClosedTwice = {"stop"}, RecvHead
    PROVE  Inv' /\ (UNCHANGED <<held, whole, rlog>> \/ Way!TNext)
  <1>1. r.st = "head" /\ toR # <<>> /\ Rest = Tail(toR) /\ r \in ReceiversAt /\ Receiving /\ r.fd \in {"open", "bad"}
    BY DEF RecvHead, Rest, Inv, ZTyped, Receiving, Hands
  <1>2. \/ Asks(r, Rest) /\ NoFileStep
        \/ IF r.tries = 0 THEN Quit(Rest)
           ELSE Answers([r EXCEPT !.tries = @ - 1, !.st = "eat"], Rest, <<>>) /\ NoFileStep
        \/ Again(Rest) \/ Quit(Rest)
        \/ Gets("ZDATA") /\ InPlace(Head(toR).pos) /\ Answers([r EXCEPT !.st = "data"], Rest, <<>>) /\ NoFileStep
        \/ Answers(r, Rest, <<>>) /\ NoFileStep
        \/ /\ Unlinked(r.file) /\ UNCHANGED declined
           /\ \/ "again" \in ClosedTwice /\ LogReceived
              \/ ClosedTwice # {"again"} /\ UNCHANGED rlog
           /\ Answers([r EXCEPT !.st = "failed", !.fd = "none"], Rest, <<Hdr("CAN")>>)
        \/ /\ Gets("ZEOF") /\ InPlace(Head(toR).pos) /\ r.fd = "open"
           /\ whole' = whole \cup {r.file}
           /\ LogReceived /\ UNCHANGED <<held, declined>>
           /\ Answers([Call(r) EXCEPT !.fd = "closed"], Rest, <<Hdr("ZRINIT")>>)
    BY DEF RecvHead
  <1>3. CASE Asks(r, Rest) /\ NoFileStep
    BY <1>1, <1>3, AsksKept
  <1>4. CASE IF r.tries = 0 THEN Quit(Rest)
             ELSE Answers([r EXCEPT !.tries = @ - 1, !.st = "eat"], Rest, <<>>) /\ NoFileStep
    BY <1>1, <1>4, EatsKept
  <1>5. CASE Again(Rest)
    BY <1>1, <1>5, AgainKept
  <1>6. CASE Quit(Rest)
    BY <1>1, <1>6, QuitKept
  <1>7. CASE Gets("ZDATA") /\ InPlace(Head(toR).pos) /\ Answers([r EXCEPT !.st = "data"], Rest, <<>>) /\ NoFileStep
    <2> DEFINE x == [r EXCEPT !.st = "data"]
    <2>1. Answers(x, Tail(toR), <<>>)
      BY <1>1, <1>7
    <2>2. /\ x \in ReceiversAt /\ x.st = "data" /\ x.file = r.file /\ x.name = r.name /\ x.fd = r.fd
          /\ x.pos = r.pos /\ ~Over(x)
      BY <1>1 DEF ReceiversAt, Over
    <2> HIDE DEF x
    <2>3. toR[1] = HdrAt("ZDATA", r.pos)
      <3>1. toR[1] \in PacketsR /\ toR[1].type = "ZDATA" /\ toR[1].pos = r.pos
        BY <1>1, <1>7, First DEF Gets, InPlace
      <3> QED
        BY <3>1, FieldsR
    <2>4. r' = x /\ toR' = Tail(toR) /\ carrier' = carrier /\ Coming' = Coming
      BY <2>1, <2>2 DEF Answers, Coming, InFrame, InFrameAs, Current, Over
    <2>5. Taken' = toR[1]
      BY <2>2, <2>3, <2>4 DEF Taken
    <2>6. Frames'
      <3> SUFFICES ASSUME carrier PROVE InOrder(Tail(toR), toR[1], Coming)
        BY <2>4, <2>5 DEF Frames
      <3>1. InOrder(toR, Taken, Coming) /\ toR \in Seq(PacketsR)
        BY DEF Inv, Frames, ZTyped
      <3> QED
        BY <1>1, <3>1, TailInOrder
    <2>7. NoFileStep
      BY <1>7
    <2> QED
      BY <1>1, <2>1, <2>2, <2>6, <2>7, StayKept
  <1>8. CASE Answers(r, Rest, <<>>) /\ NoFileStep
    BY <1>1, <1>8, StayKept
  <1>9. CASE /\ Unlinked(r.file) /\ UNCHANGED declined
             /\ \/ "again" \in ClosedTwice /\ LogReceived
                \/ ClosedTwice # {"again"} /\ UNCHANGED rlog
             /\ Answers([r EXCEPT !.st = "failed", !.fd = "none"], Rest, <<Hdr("CAN")>>)
    <2>1. UNCHANGED <<declined, rlog>>
      BY <1>9
    <2> QED
      BY <1>1, <1>9, <2>1, GivenUp
  <1>10. CASE /\ Gets("ZEOF") /\ InPlace(Head(toR).pos) /\ r.fd = "open"
              /\ whole' = whole \cup {r.file}
              /\ LogReceived /\ UNCHANGED <<held, declined>>
              /\ Answers([Call(r) EXCEPT !.fd = "closed"], Rest, <<Hdr("ZRINIT")>>)
    BY <1>1, <1>10, ClosesKept
  <1> QED
    BY <1>2, <1>3, <1>4, <1>5, <1>6, <1>7, <1>8, <1>9, <1>10


LEMMA OneBlock ==
    ASSUME NEW S, NEW b \in S, NEW q, q = <<b>>
    PROVE  q \in Seq(S) /\ Len(q) = 1 /\ \A j \in 1..Len(q) : j = 1 /\ q[j] = b
  <1>1. q \in Seq(S) /\ Len(q) = 1 /\ q[1] = b
    OBVIOUS
  <1>2. ASSUME NEW j \in 1..Len(q) PROVE j = 1
    BY <1>1
  <1> QED
    BY <1>1, <1>2

LEMMA ThreeParts ==
    ASSUME NEW S, NEW a \in Seq(S), NEW c \in Seq(S), NEW b \in Seq(S), NEW w, w = a \o c \o b
    PROVE  /\ w \in Seq(S) /\ Len(w) = Len(a) + Len(c) + Len(b)
           /\ \A j \in 1..Len(a) : w[j] = a[j]
           /\ \A j \in 1..Len(c) : w[Len(a) + j] = c[j]
           /\ \A j \in 1..Len(b) : w[Len(a) + Len(c) + j] = b[j]
  <1>0. a \o c \in Seq(S)
    OBVIOUS
  <1>1. PICK u \in Seq(S) : u = a \o c
    BY <1>0
  <1>2. /\ Len(u) = Len(a) + Len(c) /\ \A j \in 1..Len(a) : u[j] = a[j]
        /\ \A j \in 1..Len(c) : u[Len(a) + j] = c[j]
        /\ Len(a) \in Nat /\ Len(c) \in Nat /\ Len(b) \in Nat
    BY <1>1
  <1>9. u \o b \in Seq(S)
    OBVIOUS
  <1>3. w = u \o b /\ w \in Seq(S)
    BY <1>1, <1>9
  <1>4. /\ Len(w) = Len(u) + Len(b) /\ \A j \in 1..Len(u) : w[j] = u[j]
        /\ \A j \in 1..Len(b) : w[Len(u) + j] = b[j]
    BY <1>3
  <1>5. \A j \in 1..Len(a) : w[j] = a[j]
    BY <1>2, <1>4
  <1>6. \A j \in 1..Len(c) : w[Len(a) + j] = c[j]
    BY <1>2, <1>4
  <1>7. \A j \in 1..Len(b) : w[Len(a) + Len(c) + j] = b[j]
    BY <1>2, <1>4
  <1> QED
    BY <1>2, <1>3, <1>4, <1>5, <1>6, <1>7

\* a is the part of z behind its first i elements that is n long.
PartOf(a, z, i, n) == Len(a) = n /\ \A j \in 1..n : a[j] = z[i + j]

LEMMA SubSeqPart ==
    ASSUME NEW S, NEW z \in Seq(S), NEW i \in Nat, NEW n \in Nat, i + n <= Len(z),
           NEW a, a = SubSeq(z, i + 1, i + n)
    PROVE  a \in Seq(S) /\ PartOf(a, z, i, n)
  <1>1. a \in Seq(S) /\ Len(a) = n
    OBVIOUS
  <1>2. ASSUME NEW j \in 1..n PROVE a[j] = z[i + j]
    OBVIOUS
  <1> QED
    BY <1>1, <1>2 DEF PartOf

LEMMA BeginningPart ==
    ASSUME NEW S, NEW z \in Seq(S), NEW n \in Nat, n <= Len(z), NEW a, a = SubSeq(z, 1, n)
    PROVE  a \in Seq(S) /\ PartOf(a, z, 0, n)
  <1>1. a \in Seq(S) /\ Len(a) = n
    OBVIOUS
  <1>2. ASSUME NEW j \in 1..n PROVE a[j] = z[0 + j]
    OBVIOUS
  <1> QED
    BY <1>1, <1>2 DEF PartOf

Covers(S, w, t, z, k, d, e) ==
    /\ w \in Seq(S) /\ t \in Seq(S) /\ k \in Nat /\ d \in Nat /\ e \in Nat
    /\ Len(w) = k + d + e /\ PartOf(t, z, 0, k + d + e)
    /\ \A j \in 1..k : w[j] = z[j]
    /\ \A j \in 1..d : w[k + j] = z[k + j]
    /\ \A j \in 1..e : w[k + d + j] = z[k + d + j]

LEMMA Covered ==
    ASSUME NEW S, NEW w, NEW t, NEW z, NEW k, NEW d, NEW e, Covers(S, w, t, z, k, d, e)
    PROVE  w = t
  <1> USE DEF Covers
  <1> SUFFICES ASSUME NEW j \in 1 .. k + d + e PROVE w[j] = t[j]
    BY SeqEqual DEF PartOf
  <1>0. t[j] = z[j]
    <2>1. t[j] = z[0 + j]
      BY DEF PartOf
    <2> QED
      BY <2>1
  <1>1. CASE j <= k
    BY <1>0, <1>1
  <1>2. CASE k < j /\ j <= k + d
    <2>1. j - k \in 1..d /\ k + (j - k) = j
      BY <1>2
    <2> QED
      BY <1>0, <2>1
  <1>3. CASE j > k + d
    <2>1. j - k - d \in 1..e /\ k + d + (j - k - d) = j
      BY <1>3
    <2> QED
      BY <1>0, <2>1
  <1> QED
    BY <1>1, <1>2, <1>3

\* Three parts of z that follow each other make a beginning t of z.
Parts(S, z, a, c, b, t, k, d, e) ==
    /\ z \in Seq(S) /\ a \in Seq(S) /\ c \in Seq(S) /\ b \in Seq(S) /\ t \in Seq(S)
    /\ k \in Nat /\ d \in Nat /\ e \in Nat
    /\ PartOf(a, z, 0, k) /\ PartOf(c, z, k, d) /\ PartOf(b, z, k + d, e) /\ PartOf(t, z, 0, k + d + e)

LEMMA Joined ==
    ASSUME NEW S, NEW z, NEW a, NEW c, NEW b, NEW t, NEW k, NEW d, NEW e, Parts(S, z, a, c, b, t, k, d, e)
    PROVE  a \o c \o b = t
  <1> SUFFICES ASSUME z \in Seq(S), a \in Seq(S), c \in Seq(S), b \in Seq(S), t \in Seq(S),
                      k \in Nat, d \in Nat, e \in Nat,
                      PartOf(a, z, 0, k), PartOf(c, z, k, d), PartOf(b, z, k + d, e), PartOf(t, z, 0, k + d + e),
                      NEW w, w = a \o c \o b
               PROVE  w = t
    BY DEF Parts
  <1>1. Len(a) = k /\ Len(c) = d /\ Len(b) = e /\ Len(t) = k + d + e
    BY DEF PartOf
  <1>2. w \in Seq(S)
    BY ThreeParts
  <1>0. /\ Len(w) = Len(a) + Len(c) + Len(b)
        /\ \A j \in 1..Len(a) : w[j] = a[j]
        /\ \A j \in 1..Len(c) : w[Len(a) + j] = c[j]
        /\ \A j \in 1..Len(b) : w[Len(a) + Len(c) + j] = b[j]
    <2>1. Len(w) = Len(a) + Len(c) + Len(b)
      BY ThreeParts
    <2>2. \A j \in 1..Len(a) : w[j] = a[j]
      BY ThreeParts
    <2>3. \A j \in 1..Len(c) : w[Len(a) + j] = c[j]
      BY ThreeParts
    <2>4. \A j \in 1..Len(b) : w[Len(a) + Len(c) + j] = b[j]
      BY ThreeParts
    <2> QED
      BY <2>1, <2>2, <2>3, <2>4
  <1>3. Len(w) = k + d + e
    BY <1>0, <1>1
  <1>4. ASSUME NEW j \in 1..k PROVE w[j] = z[j]
    <2>1. w[j] = a[j]
      BY <1>0, <1>1
    <2>2. a[j] = z[0 + j]
      BY DEF PartOf
    <2> QED
      BY <2>1, <2>2
  <1>5. ASSUME NEW j \in 1..d PROVE w[k + j] = z[k + j]
    <2>1. w[k + j] = c[j]
      BY <1>0, <1>1
    <2>2. c[j] = z[k + j]
      BY DEF PartOf
    <2> QED
      BY <2>1, <2>2
  <1>6. ASSUME NEW j \in 1..e PROVE w[k + d + j] = z[k + d + j]
    <2>1. w[k + d + j] = b[j]
      BY <1>0, <1>1
    <2>2. b[j] = z[k + d + j]
      BY DEF PartOf
    <2> QED
      BY <2>1, <2>2
  <1> QED
    <2>1. Covers(S, w, t, z, k, d, e)
      BY <1>2, <1>3, <1>4, <1>5, <1>6 DEF Covers
    <2> QED
      BY <2>1, Covered

\* A part of z, written over a beginning h of z, leaves a beginning of z.
Patched(h, k, c, d) == SubSeq(h, 1, k) \o c \o SubSeq(h, k + d + 1, Len(h))
Patch(S, z, h, c, n, k, d, m) ==
    /\ m = IF k + d <= n THEN n ELSE k + d
    /\ z \in Seq(S) /\ n \in 0..Len(z) /\ k \in 0..n /\ c \in Seq(S) /\ d \in Nat
    /\ k + d <= Len(z) /\ PartOf(c, z, k, d) /\ h = SubSeq(z, 1, n)

LEMMA Overwrite ==
    ASSUME NEW S, NEW z, NEW n, NEW k, NEW c, NEW d, NEW h, NEW m, Patch(S, z, h, c, n, k, d, m)
    PROVE  Patched(h, k, c, d) = SubSeq(z, 1, m)
  <1>0. /\ m = IF k + d <= n THEN n ELSE k + d
        /\ z \in Seq(S) /\ n \in 0..Len(z) /\ k \in 0..n /\ c \in Seq(S) /\ d \in Nat
        /\ k + d <= Len(z) /\ PartOf(c, z, k, d) /\ h = SubSeq(z, 1, n)
    BY DEF Patch
  <1> USE <1>0
  <1>1. Len(z) \in Nat /\ n \in Nat /\ k \in Nat
    OBVIOUS
  <1>2. h \in Seq(S) /\ PartOf(h, z, 0, n) /\ Len(h) = n
    <2>1. h \in Seq(S) /\ PartOf(h, z, 0, n)
      <3>1. n <= Len(z)
        OBVIOUS
      <3> QED
        BY <1>1, <3>1, BeginningPart
    <2> QED
      BY <2>1 DEF PartOf
  <1>3. PICK e \in Nat : /\ e = IF k + d <= n THEN n - k - d ELSE 0
                         /\ k + d + e = m
    BY <1>1
  <1> DEFINE a == SubSeq(h, 1, k)
             b == SubSeq(h, k + d + 1, Len(h))
             t == SubSeq(z, 1, k + d + e)
  <1>4. a \in Seq(S) /\ PartOf(a, z, 0, k)
    <2>1. k <= Len(h)
      BY <1>1, <1>2
    <2>2. a \in Seq(S) /\ PartOf(a, h, 0, k)
      BY <1>1, <1>2, <2>1, BeginningPart
    <2> HIDE DEF a
    <2>3. ASSUME NEW j \in 1..k PROVE a[j] = z[0 + j]
      <3>1. j \in 1..n
        BY <1>1
      <3>2. a[j] = h[0 + j] /\ h[j] = z[0 + j]
        BY <1>2, <2>2, <3>1 DEF PartOf
      <3> QED
        BY <3>2
    <2>4. Len(a) = k
      BY <2>2 DEF PartOf
    <2> QED
      BY <2>2, <2>3, <2>4 DEF PartOf
  <1>5. b \in Seq(S) /\ PartOf(b, z, k + d, e)
    <2>1. CASE k + d <= n
      <3>1. k + d + e = n /\ k + d \in Nat /\ n - k - d = e
        BY <1>1, <1>3, <2>1
      <3>2. b \in Seq(S) /\ PartOf(b, h, k + d, e)
        <4>1. k + d + e <= Len(h) /\ Len(h) = k + d + e
          BY <1>1, <1>2, <3>1
        <4> QED
          BY <1>2, <3>1, <4>1, SubSeqPart
      <3> HIDE DEF b
      <3>3. ASSUME NEW j \in 1..e PROVE b[j] = z[k + d + j]
        <4>1. k + d + j \in 1..n
          BY <1>1, <3>1
        <4>2. b[j] = h[k + d + j]
          BY <3>2 DEF PartOf
        <4>3. h[k + d + j] = z[0 + (k + d + j)]
          BY <1>2, <4>1 DEF PartOf
        <4> QED
          BY <4>1, <4>2, <4>3
      <3> QED
        BY <3>2, <3>3 DEF PartOf
    <2>2. CASE k + d > n
      <3>1. e = 0 /\ k + d + 1 \in Int /\ n \in Int /\ n < k + d + 1
        BY <1>1, <1>3, <2>2
      <3>2. b = <<>>
        BY <1>2, <3>1, SubSeqEmpty
      <3> HIDE DEF b
      <3>3. b \in Seq(S) /\ Len(b) = 0
        BY <3>2, EmptySeq
      <3> QED
        BY <3>1, <3>3 DEF PartOf
    <2> QED
      BY <1>1, <2>1, <2>2
  <1>6. t \in Seq(S) /\ PartOf(t, z, 0, k + d + e)
    <2>1. k + d + e \in Nat /\ k + d + e <= Len(z) /\ 0 + (k + d + e) = k + d + e
      BY <1>1, <1>3
    <2> QED
      BY <2>1, BeginningPart
  <1> HIDE DEF a, b, t, Patched
  <1>7. a \o c \o b = t
    <2>1. Parts(S, z, a, c, b, t, k, d, e)
      BY <1>1, <1>4, <1>5, <1>6 DEF Parts
    <2> QED
      BY <2>1, Joined
  <1> QED
    BY <1>3, <1>7 DEF a, b, t, Patched

\* The block a receiver in a frame is given is the one it needs next, or none.
LEMMA BlockRead ==
    ASSUME Inv, r.st = "data", Gets("SUB")
    PROVE  LET m == Head(toR)
           IN  /\ m = toR[1] /\ m.type = "SUB" /\ m.end \in {"E", "G", "W"} /\ r.pos \in Nat
               /\ Current \in Files /\ Size[Current] \in Nat
               /\ \/ m = SubEnd /\ m.blocks = <<>> /\ m.end = "E"
                  \/ m.blocks = Block(Current, r.pos + 1) /\ r.pos + 1 <= Size[Current]
  <1>1. /\ toR \in Seq(PacketsR) /\ Len(toR) \in Nat /\ 1 \in 1..Len(toR) /\ toR # <<>>
        /\ Head(toR) = toR[1] /\ toR[1] \in PacketsR /\ toR[1].type = "SUB"
    BY First DEF Gets
  <1>2. /\ Receiving /\ InJob /\ FitsAfter(0) /\ r.pos \in Nat /\ Current \in Files /\ Size[Current] \in Nat
    BY ListType, ZSizeAssumption DEF Inv, ZTyped, Hands, Receiving, ReceiversAt, InJob, Current
  <1>3. toR[1] = SubEnd \/ \E f \in Files, b \in Nat, e \in {"E", "G", "W"} : toR[1] = Sub(Block(f, b), e)
    BY <1>1 DEF PacketsR, Hdr, ZFILE, HdrAt
  <1>4. CASE toR[1] = SubEnd
    BY <1>1, <1>2, <1>4 DEF SubEnd, Sub
  <1>5. CASE \E f \in Files, b \in Nat, e \in {"E", "G", "W"} : toR[1] = Sub(Block(f, b), e)
    <2>1. PICK f \in Files, b \in Nat, e \in {"E", "G", "W"} : toR[1] = Sub(Block(f, b), e)
      BY <1>5
    <2>2. toR[1].blocks = Block(f, b) /\ toR[1].end = e /\ toR[1].blocks # <<>>
      BY <2>1, BlockFields DEF Sub
    <2>3. Fits(toR[1])
      BY <1>1, <1>2 DEF FitsAfter
    <2>4. PICK c \in 1..Size[Current] : toR[1].blocks = Block(Current, c)
      BY <1>1, <2>2, <2>3 DEF Fits, FitsAs
    <2>5. InOrder(toR, HdrAt("ZDATA", r.pos), Coming)
      BY <1>1 DEF Inv, Ends, Frames, Taken
    <2>6. Follows(Ahead(toR, HdrAt("ZDATA", r.pos), Coming, 0), Ahead(toR, HdrAt("ZDATA", r.pos), Coming, 1))
      <3>1. 0 \in 0 .. Len(toR) + 1 /\ 1 \in 0 .. Len(toR) + 1
        BY <1>1
      <3> QED
        BY <2>5, <3>1 DEF InOrder
    <2>7. Follows(HdrAt("ZDATA", r.pos), toR[1])
      <3>1. Ahead(toR, HdrAt("ZDATA", r.pos), Coming, 0) = HdrAt("ZDATA", r.pos)
        BY DEF Ahead
      <3>2. Ahead(toR, HdrAt("ZDATA", r.pos), Coming, 1) = toR[1]
        BY <1>1 DEF Ahead
      <3> QED
        BY <2>6, <3>1, <3>2
    <2>8. toR[1].blocks[1][2] = r.pos + 1
      BY <1>1, <2>2, <2>7 DEF Follows, HdrAt
    <2>9. c = r.pos + 1
      BY <2>4, <2>8, BlockFields
    <2> QED
      BY <1>1, <1>2, <2>2, <2>4, <2>9
  <1> QED
    BY <1>3, <1>4, <1>5

\* What a block makes of the file.
LEMMA WrittenIs ==
    ASSUME Inv, r.st = "data", Gets("SUB"), r.fd = "open", NEW bs, bs = Head(toR).blocks
    PROVE  /\ Written(bs) = [f \in Files |-> Written(bs)[f]]
           /\ \A f \in Files : f # Current => Written(bs)[f] = held[f]
           /\ \E n \in 0..Size[Current] : Written(bs)[Current] = SubSeq(ZFile(Current), 1, n)
           /\ r.pos + Len(bs) <= Len(Written(bs)[Current])
           /\ \/ Written(bs) = held
              \/ \E n \in Len(held[Current]) + 1 .. Size[Current] :
                    Written(bs) = [held EXCEPT ![Current] = SubSeq(ZFile(Current), 1, n)]
  <1>1. /\ Current \in Files /\ r.file = Current /\ r.pos \in Nat /\ r.pos <= Len(held[Current])
        /\ Size[Current] \in Nat /\ held = [f \in Files |-> held[f]]
    <2>1. Receiving /\ Hands /\ ZTyped
      BY DEF Receiving, Inv
    <2> QED
      BY <2>1, BlockRead DEF Hands, ZTyped
  <1>2. PICK h : h = held[Current]
    OBVIOUS
  <1>3. PICK z : z = ZFile(Current)
    OBVIOUS
  <1>4. PICK n \in 0..Size[Current] : h = SubSeq(z, 1, n)
    BY <1>1, <1>2, <1>3 DEF Inv, Begun
  <1>5. PICK S : S = {<<Current, b>> : b \in Nat}
    OBVIOUS
  <1>6. z \in Seq(S) /\ Len(z) = Size[Current] /\ \A b \in 1..Size[Current] : z[b] = <<Current, b>>
    BY <1>1, <1>3, <1>5, ContentOf DEF ZFile
  <1>7. Len(h) = n /\ n \in Nat /\ r.pos \in 0..n
    BY <1>1, <1>2, <1>4, <1>6
  <1>8. PICK d \in 0..1 : /\ Len(bs) = d /\ r.pos + d <= Size[Current] /\ bs \in Seq(S)
                          /\ PartOf(bs, z, r.pos, d)
    <2>1. CASE bs = <<>>
      <3>1. bs \in Seq(S) /\ Len(bs) = 0
        BY <2>1, EmptySeq
      <3>2. PartOf(bs, z, r.pos, 0)
        BY <3>1 DEF PartOf
      <3> QED
        BY <1>1, <1>4, <1>7, <3>1, <3>2
    <2>2. CASE bs = Block(Current, r.pos + 1) /\ r.pos + 1 <= Size[Current]
      <3>1. r.pos + 1 \in Nat /\ r.pos + 1 \in 1..Size[Current]
        BY <1>1, <2>2
      <3>2. z[r.pos + 1] = <<Current, r.pos + 1>> /\ <<Current, r.pos + 1>> \in S
        BY <1>5, <1>6, <3>1
      <3>3. bs = <<z[r.pos + 1]>> /\ z[r.pos + 1] \in S
        BY <2>2, <3>2 DEF Block
      <3>4. bs \in Seq(S) /\ Len(bs) = 1 /\ \A j \in 1..Len(bs) : j = 1 /\ bs[j] = z[r.pos + 1]
        BY <3>3, OneBlock
      <3>5. PartOf(bs, z, r.pos, 1)
        BY <3>4 DEF PartOf
      <3> QED
        BY <2>2, <3>4, <3>5
    <2> QED
      BY <2>1, <2>2, BlockRead
  <1>9. PICK k \in 0..Size[Current] : k = IF r.pos + d <= n THEN n ELSE r.pos + d
    BY <1>1, <1>4, <1>7, <1>8
  <1>10. Patched(h, r.pos, bs, d) = SubSeq(z, 1, k)
    <2>1. n \in 0..Len(z) /\ d \in Nat /\ r.pos + d <= Len(z)
      BY <1>6, <1>8
    <2>2. Patch(S, z, h, bs, n, r.pos, d, k)
      BY <1>4, <1>6, <1>7, <1>8, <1>9, <2>1 DEF Patch
    <2> QED
      BY <2>2, Overwrite
  <1>11. Written(bs) = [held EXCEPT ![Current] = SubSeq(z, 1, k)]
    BY <1>1, <1>2, <1>8, <1>10 DEF Written, Patched
  <1>12. r.pos + d <= k /\ Len(SubSeq(z, 1, k)) = k
    BY <1>1, <1>6, <1>8, <1>9
  <1>13. PICK v : v = SubSeq(z, 1, k)
    OBVIOUS
  <1>14. Written(bs) = [held EXCEPT ![Current] = v]
    BY <1>11, <1>13
  <1>15. Written(bs)[Current] = v /\ \A f \in Files : f # Current => Written(bs)[f] = held[f]
    BY <1>1, <1>14
  <1>16. Written(bs) = [f \in Files |-> Written(bs)[f]]
    BY <1>1, <1>14
  <1>17. k = n \/ k \in Len(held[Current]) + 1 .. Size[Current]
    BY <1>1, <1>2, <1>7, <1>9
  <1>18. k = n => Written(bs) = held
    <2> SUFFICES ASSUME k = n PROVE [held EXCEPT ![Current] = v] = held
      BY <1>14
    <2>1. v = held[Current]
      BY <1>2, <1>4, <1>13
    <2> QED
      BY <1>1, <2>1
  <1> QED
    BY <1>3, <1>8, <1>11, <1>12, <1>13, <1>15, <1>16, <1>17, <1>18

LEMMA Grows ==
    ASSUME NEW f \in Files, f \notin whole, UNCHANGED <<whole, rlog>>,
           NEW n \in Len(held[f]) + 1 .. Size[f], held' = [held EXCEPT ![f] = SubSeq(ZFile(f), 1, n)]
    PROVE  Way!TNext
  <1>1. Len(ZFile(f)) = Size[f] /\ [g \in Files |-> ZFile(g)][f] = ZFile(f)
    BY ContentOf
  <1>2. n \in Len(held[f]) + 1 .. Len([g \in Files |-> ZFile(g)][f])
    BY <1>1
  <1>3. held' = [held EXCEPT ![f] = SubSeq([g \in Files |-> ZFile(g)][f], 1, n)]
    BY <1>1
  <1>4. {g \in Files : rlog'[g] > 0} = {g \in Files : rlog[g] > 0}
    OBVIOUS
  <1>5. Way!Grow(f)
    BY <1>2, <1>3, <1>4 DEF Way!Grow, Way!Start
  <1> QED
    BY <1>5, OneFile

\* What comes next fits a receiver who has read the block.
LEMMA FramesRead ==
    ASSUME Inv, r.st = "data", Gets("SUB"), NEW x, NEW p, Answers(x, Tail(toR), p),
           x.pos = r.pos + Len(Head(toR).blocks),
           x.st = IF Head(toR).end = "G" THEN "data" ELSE "head"
    PROVE  Frames'
  <1>1. /\ toR # <<>> /\ toR \in Seq(PacketsR) /\ Head(toR) = toR[1]
    BY First DEF Gets
  <1>2. CASE x.st # "data"
    BY <1>1, <1>2, FramesTaken
  <1>3. CASE x.st = "data"
    <2>1. toR[1].end = "G" /\ toR[1].type = "SUB" /\ r.pos \in Nat /\ toR[1].blocks = Block(Current, r.pos + 1)
      BY <1>1, <1>3, BlockRead
    <2>2. x.pos = r.pos + 1
      <3>1. Len(Block(Current, r.pos + 1)) = 1
        BY BlockFields
      <3>2. Head(toR).blocks = Block(Current, r.pos + 1)
        BY <1>1, <2>1
      <3> QED
        BY <3>1, <3>2
    <2>3. ~Over(x)
      BY <1>3 DEF Over
    <2>4. r' = x /\ toR' = Tail(toR) /\ carrier' = carrier /\ Coming' = Coming
      BY <2>3 DEF Answers, Coming, InFrame, InFrameAs, Current, Over
    <2>5. Taken' = HdrAt("ZDATA", r.pos + 1)
      BY <1>3, <2>2, <2>4 DEF Taken
    <2>6. ASSUME NEW y, Follows(toR[1], y) PROVE Follows(HdrAt("ZDATA", r.pos + 1), y)
      <3>1. toR[1].blocks[1][2] = r.pos + 1
        BY <2>1, BlockFields
      <3>2. Goes(toR[1])
        BY <2>1 DEF Goes
      <3> QED
        BY <2>1, <2>6, <3>1, <3>2 DEF Follows, HdrAt
    <2> SUFFICES ASSUME carrier PROVE InOrder(Tail(toR), HdrAt("ZDATA", r.pos + 1), Coming)
      BY <2>4, <2>5 DEF Frames
    <2>7. InOrder(toR, Taken, Coming)
      BY DEF Inv, Frames
    <2> QED
      BY <1>1, <2>6, <2>7, TailInOrder
  <1> QED
    BY <1>2, <1>3

\* A block, and the disk.
LEMMA BlockKept ==
    ASSUME Inv, r.st = "data", Gets("SUB"), NEW fd, NEW p, UNCHANGED <<whole, rlog, declined>>,
           Answers([r EXCEPT !.pos = @ + Len(Head(toR).blocks), !.tries = Tries.pos,
                             !.st = IF Head(toR).end = "G" THEN "data" ELSE "head", !.fd = fd], Tail(toR), p),
           p = <<>> \/ p = <<HdrAt("ZACK", r.pos + Len(Head(toR).blocks))>>,
           \/ r.fd = "open" /\ fd = "open" /\ held' = Written(Head(toR).blocks)
           \/ fd = "bad" /\ held' = held
    PROVE  Inv' /\ (UNCHANGED <<held, whole, rlog>> \/ Way!TNext)
  <1>1. toR # <<>> /\ Tail(toR) \in {toR, Tail(toR), <<>>}
    BY DEF Gets
  <1>2. PICK d \in 0..1 : Len(Head(toR).blocks) = d /\ r.pos + d <= Size[Current]
    <2>1. CASE Head(toR).blocks = <<>>
      <3>1. Len(Head(toR).blocks) = 0
        BY <2>1, EmptySeq
      <3>2. Receiving /\ r.pos <= Size[Current] /\ r.pos + 0 = r.pos
        BY BlockRead DEF Inv, Hands, Receiving
      <3> QED
        BY <3>1, <3>2
    <2>2. CASE Head(toR).blocks = Block(Current, r.pos + 1) /\ r.pos + 1 <= Size[Current]
      BY <2>2, BlockFields
    <2> QED
      BY <2>1, <2>2, BlockRead
  <1>3. /\ r \in ReceiversAt /\ r.pos \in Nat /\ Tries.pos \in Int /\ Receiving /\ Current \in Files
        /\ r.file = Current /\ Current \notin whole /\ held = [f \in Files |-> held[f]]
    BY TriesAssumption, BlockRead DEF Inv, ZTyped, Receiving, Hands
  <1>4. PICK x : x = [r EXCEPT !.pos = @ + Len(Head(toR).blocks), !.tries = Tries.pos,
                               !.st = IF Head(toR).end = "G" THEN "data" ELSE "head", !.fd = fd]
    OBVIOUS
  <1>5. /\ x \in ReceiversAt /\ x.st \in {"head", "data"} /\ x.file = r.file /\ x.name = r.name /\ x.fd = fd
        /\ x.pos = r.pos + d /\ x.st = IF Head(toR).end = "G" THEN "data" ELSE "head"
    <2>1. fd \in {"open", "bad"}
      OBVIOUS
    <2>2. PICK q : q = IF Head(toR).end = "G" THEN "data" ELSE "head"
      OBVIOUS
    <2>3. PICK n \in Nat : n = r.pos + d
      BY <1>3
    <2>4. x = [r EXCEPT !.pos = n, !.tries = Tries.pos, !.st = q, !.fd = fd]
      BY <1>2, <1>4, <2>2, <2>3
    <2> QED
      BY <1>3, <2>1, <2>2, <2>3, <2>4 DEF ReceiversAt
  <1>6. Answers(x, Tail(toR), p)
    BY <1>4
  <1>7. Frames'
    BY <1>2, <1>5, <1>6, FramesRead
  <1>8. (p = <<>> \/ \E m \in PacketsS : p = <<m>>) /\ \A m : p = <<m>> => m.type = "ZACK"
    <2>1. r.pos + d \in Nat
      BY <1>3
    <2>2. HdrAt("ZACK", r.pos + d) \in PacketsS /\ HdrAt("ZACK", r.pos + d).type = "ZACK"
      BY <2>1, PacketTypes DEF HdrAt
    <2>3. p = <<>> \/ p = <<HdrAt("ZACK", r.pos + d)>>
      BY <1>2
    <2>4. PICK h : h = HdrAt("ZACK", r.pos + d)
      OBVIOUS
    <2>5. (p = <<>> \/ p = <<h>>) /\ h \in PacketsS /\ h.type = "ZACK"
      BY <2>2, <2>3, <2>4
    <2>6. p = <<>> => \A m : p # <<m>>
      OBVIOUS
    <2>7. p = <<h>> => \A m : p = <<m>> => m = h
      OBVIOUS
    <2> QED
      BY <2>5, <2>6, <2>7
  <1>9. CASE fd = "bad" /\ held' = held
    <2>1. \E n \in 0..Size[Current] : held'[Current] = SubSeq(ZFile(Current), 1, n)
      BY <1>3, <1>9 DEF Inv, Begun
    <2>2. Inv'
      BY <1>1, <1>2, <1>3, <1>5, <1>6, <1>7, <1>8, <1>9, <2>1, FileKept
    <2> QED
      BY <1>9, <2>2
  <1>10. CASE r.fd = "open" /\ fd = "open" /\ held' = Written(Head(toR).blocks)
    <2>1. /\ held' = [f \in Files |-> held'[f]] /\ \A f \in Files : f # Current => held'[f] = held[f]
          /\ \E n \in 0..Size[Current] : held'[Current] = SubSeq(ZFile(Current), 1, n)
          /\ r.pos + d <= Len(held'[Current])
          /\ \/ held' = held
             \/ \E n \in Len(held[Current]) + 1 .. Size[Current] :
                   held' = [held EXCEPT ![Current] = SubSeq(ZFile(Current), 1, n)]
      BY ZenonT(30), <1>2, <1>10, WrittenIs
    <2>2. Inv'
      BY <1>1, <1>2, <1>3, <1>5, <1>6, <1>7, <1>8, <1>10, <2>1, FileKept
    <2>3. held' = held \/ Way!TNext
      BY <1>3, <2>1, Grows
    <2> QED
      BY <2>2, <2>3
  <1> QED
    BY <1>9, <1>10

\* In a frame.
LEMMA RecvDataKept ==
    ASSUME Inv, ClosedTwice = {"stop"}, RecvData
    PROVE  Inv' /\ (UNCHANGED <<held, whole, rlog>> \/ Way!TNext)
  <1>1. r.st = "data" /\ toR # <<>> /\ Rest = Tail(toR) /\ Receiving /\ r \in ReceiversAt /\ r.fd \in {"open", "bad"}
    BY DEF RecvData, Rest, Receiving, Inv, ZTyped, Hands
  <1> DEFINE m == Head(toR)
             x == [r EXCEPT !.pos = @ + Len(m.blocks), !.tries = Tries.pos,
                            !.st = IF m.end = "G" THEN "data" ELSE "head"]
             ack == IF m.end = "W" THEN <<HdrAt("ZACK", x.pos)>> ELSE <<>>
  <1>2. \/ Quit(Rest) \/ Again(Rest)
        \/ /\ Gets("SUB") /\ UNCHANGED <<whole, rlog, declined>>
           /\ \/ held' = (IF r.fd = "bad" THEN held ELSE Written(m.blocks)) /\ Answers(x, Rest, ack)
              \/ r.fd = "open" /\ UNCHANGED held /\ Answers([x EXCEPT !.fd = "bad"], Rest, ack)
    BY DEF RecvData
  <1>3. CASE Quit(Rest)
    BY <1>1, <1>3, QuitKept
  <1>4. CASE Again(Rest)
    BY <1>1, <1>4, AgainKept
  <1>5. ack = <<>> \/ ack = <<HdrAt("ZACK", r.pos + Len(m.blocks))>>
    BY <1>1 DEF ReceiversAt
  <1>6. CASE /\ Gets("SUB") /\ UNCHANGED <<whole, rlog, declined>>
             /\ held' = (IF r.fd = "bad" THEN held ELSE Written(m.blocks)) /\ Answers(x, Rest, ack)
    <2>1. x = [r EXCEPT !.pos = @ + Len(m.blocks), !.tries = Tries.pos,
                        !.st = IF m.end = "G" THEN "data" ELSE "head", !.fd = r.fd]
      BY <1>1 DEF ReceiversAt
    <2>2. Answers([r EXCEPT !.pos = @ + Len(m.blocks), !.tries = Tries.pos,
                            !.st = IF m.end = "G" THEN "data" ELSE "head", !.fd = r.fd], Tail(toR), ack)
      BY <1>1, <1>6, <2>1
    <2>3. \/ r.fd = "open" /\ held' = Written(m.blocks)
          \/ r.fd = "bad" /\ held' = held
      BY <1>1, <1>6
    <2> HIDE DEF x, ack
    <2> QED
      BY <1>1, <1>5, <1>6, <2>2, <2>3, BlockKept
  <1>7. CASE /\ Gets("SUB") /\ UNCHANGED <<whole, rlog, declined>>
             /\ r.fd = "open" /\ UNCHANGED held /\ Answers([x EXCEPT !.fd = "bad"], Rest, ack)
    <2>1. Answers([r EXCEPT !.pos = @ + Len(m.blocks), !.tries = Tries.pos,
                            !.st = IF m.end = "G" THEN "data" ELSE "head", !.fd = "bad"], Tail(toR), ack)
      BY <1>1, <1>7
    <2> HIDE DEF x, ack
    <2> QED
      BY <1>1, <1>5, <1>7, <2>1, BlockKept
  <1> QED
    BY <1>2, <1>3, <1>4, <1>6, <1>7

\* What is thrown away.
LEMMA EatKept ==
    ASSUME Inv, Eat
    PROVE  Inv' /\ UNCHANGED <<held, whole, rlog>>
  <1>1. r.st = "eat" /\ toR # <<>> /\ Rest = Tail(toR) /\ Receiving /\ NoFileStep /\ r \in ReceiversAt
    BY DEF Eat, Rest, Receiving, Inv, ZTyped
  <1>2. CASE Asks(r, Rest)
    BY <1>1, <1>2, AsksKept
  <1>3. CASE Answers(r, Rest, <<>>)
    BY <1>1, <1>3, StayKept
  <1> QED
    BY <1>2, <1>3 DEF Eat

\* Nothing comes.
LEMMA RecvTimeoutKept ==
    ASSUME Inv, ClosedTwice = {"stop"}, RecvTimeout
    PROVE  Inv' /\ (UNCHANGED <<held, whole, rlog>> \/ Way!TNext)
  <1>1. r.st \in {"try", "head", "data", "eat", "fin"}
    BY DEF RecvTimeout, Over, Inv, ZTyped, ReceiversAt
  <1>2. CASE r.st = "try"
    BY <1>2, CallAgainKept DEF RecvTimeout
  <1>3. CASE r.st = "head"
    BY <1>3, EatsKept DEF RecvTimeout
  <1>4. CASE r.st = "data"
    BY <1>4, AgainKept DEF RecvTimeout, Receiving
  <1>5. CASE r.st = "eat"
    BY <1>5, AsksKept DEF RecvTimeout, Receiving
  <1>6. CASE r.st = "fin"
    BY <1>6, RecvFinKept DEF RecvTimeout
  <1> QED
    BY <1>1, <1>2, <1>3, <1>4, <1>5, <1>6

LEMMA ReceiverKeeps ==
    ASSUME Inv, ClosedTwice = {"stop"}, Receiver
    PROVE  Inv' /\ (UNCHANGED <<held, whole, rlog>> \/ Way!TNext)
  <1>1. CASE RecvFin
    BY <1>1, RecvFinKept DEF RecvFin
  <1> QED
    BY <1>1, TryFileKept, TryOtherKept, RecvHeadKept, RecvDataKept, EatKept, RecvTimeoutKept DEF Receiver

-----------------------------------------------------------------------------
(* The line.                                                                *)

\* A packet to the sender is lost or damaged.
LEMMA NoiseBack ==
    ASSUME Inv, toS # <<>>, toS' \in Hurt(toS), toR' = toR,
           UNCHANGED <<link, s, r, disk, logs, told, carrier>>
    PROVE  Inv'
  <1>1. ZTyped /\ Replies /\ Ends /\ Frames
    BY DEF Inv
  <1>2. UNCHANGED <<link, s, r, held, whole, slog, rlog, passed, declined, carrier, toR>>
    BY DEF disk, logs, told
  <1>3. Behind(toS', toS) /\ toS' \in Seq(PacketsS)
    BY <1>1, PacketTypes, HurtBehind DEF ZTyped
  <1>4. Replies'
    <2>1. Current' = Current /\ (InJob' <=> InJob) /\ (Sending' => Sending)
      BY <1>2 DEF Current, InJob, L, Sending
    <2> QED
      BY <1>1, <1>2, <1>3, <2>1, RepliesLeft
  <1>5. carrier
    BY <1>1 DEF Ends
  <1>6. Ends' /\ ZTyped'
    BY <1>1, <1>2, <1>3, <1>5 DEF Ends, ZTyped, L, Over
  <1>7. Frames'
    BY <1>1, <1>2 DEF Frames, Taken, Coming, InFrame, InFrameAs, Current, Over
  <1>8. Place' /\ Past' /\ Hands' /\ Offers' /\ Names' /\ Begun'
    <2>1. Place' /\ Past'
      BY <1>2 DEF Inv, Place, Past, L, Current, InJob, Sending, Elsewhere
    <2>2. Hands'
      BY <1>2 DEF Inv, Hands, L, Current, InJob, Receiving, FitsAfter, Fits, FitsAs
    <2>3. Offers'
      BY <1>2 DEF Inv, Offers, L, Current, InJob, FitsAfter, Fits, FitsAs
    <2>4. Names' /\ Begun'
      BY <1>2 DEF Inv, Names, Begun, Receiving, ZFile
    <2> QED
      BY <2>1, <2>2, <2>3, <2>4
  <1> QED
    BY <1>4, <1>6, <1>7, <1>8 DEF Inv

\* A packet to the receiver is.
LEMMA NoiseForth ==
    ASSUME Inv, toR # <<>>, toR' \in Hurt(toR), toS' = toS,
           UNCHANGED <<link, s, r, disk, logs, told, carrier>>
    PROVE  Inv'
  <1>1. ZTyped /\ Hands /\ Offers /\ Ends /\ Frames /\ toR \in Seq(PacketsR)
    BY DEF Inv, ZTyped
  <1>2. UNCHANGED <<link, s, r, held, whole, slog, rlog, passed, declined, carrier, toS>>
    BY DEF disk, logs, told
  <1>3. Behind(toR', toR) /\ toR' \in Seq(PacketsR)
    BY <1>1, PacketTypes, HurtBehind
  <1>4. carrier /\ carrier' = carrier
    BY <1>1, <1>2 DEF Ends
  <1>5. (FitsAfter(0) => FitsAfter(0)') /\ Offers' /\ Ends'
    BY <1>1, <1>2, <1>3, <1>4, LineLeft
  <1>6. Hands'
    BY <1>1, <1>2, <1>5 DEF Hands, Receiving, InJob, L, Current
  <1>7. ZTyped' /\ Place' /\ Past' /\ Replies' /\ Names' /\ Begun'
    <2>1. ZTyped'
      BY <1>1, <1>2, <1>3 DEF ZTyped, L
    <2>2. Place' /\ Past'
      BY <1>2 DEF Inv, Place, Past, L, Current, InJob, Sending, Elsewhere
    <2>3. Replies'
      BY <1>2 DEF Inv, Replies, L, Current, InJob, Sending
    <2>4. Names' /\ Begun'
      BY <1>2 DEF Inv, Names, Begun, Receiving, ZFile
    <2> QED
      BY <2>1, <2>2, <2>3, <2>4
  <1>8. Frames'
    <2>1. Taken' = Taken /\ Coming' = Coming
      BY <1>2 DEF Taken, Coming, InFrame, InFrameAs, Current, Over
    <2>2. InOrder(toR, Taken, Coming)
      BY <1>1, <1>4 DEF Frames
    <2> SUFFICES InOrder(toR', Taken, Coming)
      BY <2>1 DEF Frames
    <2>3. CASE toR' = <<Hdr("BAD")>> \o Tail(toR)
      BY <1>1, <2>2, <2>3, HurtInOrder
    <2>4. CASE toR' = Tail(toR) /\ toR[1].type \notin {"SUB", "BAD"}
      <3>1. CASE r.st # "data"
        <4>1. Taken = Hdr("BAD")
          BY <3>1 DEF Taken
        <4>2. \A y : Follows(toR[1], y) => Follows(Hdr("BAD"), y)
          BY OutOfFrame
        <4>3. InOrder(Tail(toR), Hdr("BAD"), Coming)
          BY <1>1, <2>2, <4>2, TailInOrder
        <4> QED
          BY <2>4, <4>1, <4>3
      <3>2. CASE r.st = "data" /\ toR[1].type = "ZNAK"
        BY <1>1, <2>2, <2>4, <3>2, TailInOrder
      <3>3. CASE r.st = "data" /\ toR[1].type = "CAN"
        <4>1. Len(toR) \in Nat /\ 1 \in 1..Len(toR)
          BY First
        <4>2. Over(s) /\ Len(toR) = 1
          BY <1>1, <3>3, <4>1 DEF Ends
        <4>3. Tail(toR) = <<>>
          <5>1. Tail(toR) \in Seq(PacketsR) /\ Len(Tail(toR)) = 0
            BY <4>2, First, HeadTailProperties
          <5> QED
            BY <5>1, EmptySeq
        <4>4. Coming = Hdr("BAD")
          BY <4>2 DEF Coming, InFrame, InFrameAs, Over
        <4>5. Follows(Taken, Coming)
          BY <4>4 DEF Follows, Hdr
        <4> QED
          BY <2>4, <4>3, <4>5, EmptyInOrder
      <3>4. ~(r.st = "data" /\ toR[1].type \notin {"ZNAK", "CAN"})
        <4> SUFFICES ASSUME r.st = "data", toR[1].type \notin {"SUB", "BAD", "ZNAK", "CAN"} PROVE FALSE
          BY <2>4
        <4>1. Len(toR) \in Nat /\ 1 \in 1..Len(toR)
          BY First
        <4>2. Follows(Ahead(toR, Taken, Coming, 0), Ahead(toR, Taken, Coming, 1))
          <5>1. 0 \in 0 .. Len(toR) + 1 /\ 1 \in 0 .. Len(toR) + 1
            BY <4>1
          <5> QED
            BY <2>2, <5>1 DEF InOrder
        <4>3. Ahead(toR, Taken, Coming, 0) = Taken /\ Ahead(toR, Taken, Coming, 1) = toR[1]
          BY <4>1 DEF Ahead
        <4>4. Taken.type = "ZDATA"
          BY DEF Taken, HdrAt
        <4> QED
          BY <4>2, <4>3, <4>4 DEF Follows, Goes
      <3> QED
        BY <3>1, <3>2, <3>3, <3>4
    <2>5. Head(toR) = toR[1]
      BY First
    <2> QED
      BY <2>3, <2>4, <2>5 DEF Hurt
  <1> QED
    BY <1>5, <1>6, <1>7, <1>8 DEF Inv

\* The carrier is lost, and what was on the line.
LEMMA CarrierKept ==
    ASSUME Inv, ZLoseCarrier
    PROVE  Inv' /\ UNCHANGED <<held, whole, rlog>>
  <1>1. /\ UNCHANGED <<link, s, r, held, whole, slog, rlog, passed, declined>>
        /\ carrier' = FALSE /\ toR' = <<>> /\ toS' = <<>>
    BY DEF ZLoseCarrier, disk, logs, told
  <1>2. ZTyped' /\ Place' /\ Past' /\ Names' /\ Begun'
    <2>1. ZTyped'
      BY <1>1, EmptySeq DEF Inv, ZTyped, L
    <2>2. Place' /\ Past'
      BY <1>1 DEF Inv, Place, Past, L, Current, InJob, Sending, Elsewhere
    <2>3. Names' /\ Begun'
      BY <1>1 DEF Inv, Names, Begun, Receiving, ZFile
    <2> QED
      BY <2>1, <2>2, <2>3
  <1>3. Len(toR') = 0 /\ Len(toS') = 0
    BY <1>1
  <1>4. Hands'
    BY <1>1, <1>3 DEF Inv, Hands, Receiving, InJob, L, Current, FitsAfter
  <1>5. Offers' /\ Frames' /\ Ends'
    BY <1>1, <1>3 DEF Offers, Frames, Ends
  <1>6. Replies'
    BY <1>1, <1>3 DEF Inv, Replies, Sending, Current, InJob, L
  <1> QED
    BY <1>1, <1>2, <1>4, <1>5, <1>6 DEF Inv

-----------------------------------------------------------------------------
(* The theorems.                                                            *)

\* The sender writes no file of the receiver, and a history is not forgotten.
LEMMA SendsWrites ==
    ASSUME NEW x, NEW rest, NEW p, Sends(x, rest, p)
    PROVE  UNCHANGED <<held, whole, rlog>>
  BY DEF Sends, disk

LEMMA GoOnWrites ==
    ASSUME NEW refused, GoOn(refused)
    PROVE  UNCHANGED <<held, whole, rlog>> /\ (misled => misled')
  <1>1. PICK k \in NextFile(s.job + 1) :
           /\ Sends(Offered(s, k), Tail(toS), Offer(k))
           /\ misled' = (misled \/ ~(refused \subseteq declined))
    BY DEF GoOn
  <1>2. misled => misled'
    BY <1>1, Zenon
  <1> QED
    BY <1>1, <1>2, SendsWrites

LEMMA SenderWrites ==
    ASSUME Sender
    PROVE  UNCHANGED <<held, whole, rlog>> /\ (misled => misled')
  <1>1. CASE SendInit
    BY <1>1, GoOnWrites, SendsWrites DEF SendInit, Initialised, Fails, Keep
  <1>2. CASE SendFile
    BY <1>2, GoOnWrites, SendsWrites DEF SendFile, Fails, Keep
  <1>3. CASE SendHead
    BY <1>3 DEF SendHead, Sends, Keep, disk
  <1>4. CASE SendData
    BY <1>4 DEF SendData, Sends, disk
  <1>5. CASE SendEof
    BY <1>5 DEF SendEof, Sends, Keep, disk
  <1>6. CASE InSync
    BY <1>6, GoOnWrites, SendsWrites DEF InSync, Back, Fails, Keep
  <1>7. CASE SendFin
    BY <1>7 DEF SendFin, Sends, Keep, disk
  <1>8. CASE SendCommand
    BY <1>8 DEF SendCommand, Sends, Fails, Keep, disk
  <1>9. CASE SendCancelled
    BY <1>9 DEF SendCancelled, Sends, Fails, Keep, disk
  <1>10. CASE SendTimeout
    BY <1>10 DEF SendTimeout, Sends, Fails, disk
  <1> QED
    BY <1>1, <1>2, <1>3, <1>4, <1>5, <1>6, <1>7, <1>8, <1>9, <1>10 DEF Sender

LEMMA ReceiverAnswers ==
    ASSUME Receiver
    PROVE  UNCHANGED misled
  <1>1. CASE TryFile
    BY <1>1 DEF TryFile, Asks, Answers
  <1>2. CASE TryOther
    BY <1>2 DEF TryOther, CallAgain, Quit, Answers
  <1>3. CASE RecvHead
    BY <1>3 DEF RecvHead, Again, Asks, Quit, Answers
  <1>4. CASE RecvData
    BY <1>4 DEF RecvData, Again, Asks, Quit, Answers
  <1>5. CASE Eat
    BY <1>5 DEF Eat, Asks, Answers
  <1>6. CASE RecvFin
    BY <1>6 DEF RecvFin, Answers
  <1>7. CASE RecvTimeout
    BY <1>7 DEF RecvTimeout, CallAgain, Again, Asks, Quit, Answers
  <1> QED
    BY <1>1, <1>2, <1>3, <1>4, <1>5, <1>6, <1>7 DEF Receiver

LEMMA StaysMisled ==
    ASSUME misled, [ZNext]_zvars
    PROVE  misled'
  <1>1. CASE Sender
    BY <1>1, SenderWrites
  <1>2. CASE Receiver
    BY <1>2, ReceiverAnswers
  <1>3. CASE Noise \/ ZLoseCarrier
    BY <1>3 DEF Noise, ZLoseCarrier, told
  <1>4. CASE UNCHANGED zvars
    BY <1>4 DEF zvars
  <1> QED
    BY <1>1, <1>2, <1>3, <1>4 DEF ZNext

LEMMA InvStarts ==
    ASSUME ZInit
    PROVE  Inv /\ Way!TInit
  <1>1. /\ link \in Links /\ held = link.held /\ whole = {} /\ declined = {} /\ passed = {} /\ carrier = TRUE
        /\ slog = [f \in Files |-> 0] /\ rlog = [f \in Files |-> 0]
        /\ toR = <<Hdr("ZRQINIT")>> /\ toS = <<Hdr("ZRINIT")>>
    BY DEF ZInit, Hdr
  <1>2. /\ s \in SendersAt /\ s.st = "init" /\ s.job = 0
        /\ r \in ReceiversAt /\ r.st = "try" /\ r.name = NoFile /\ r.fd = "none"
    BY TriesAssumption DEF ZInit, SendersAt, ReceiversAt
  <1>3. /\ L \in Seq(Files) /\ Len(L) \in Nat /\ \A i \in 1..Len(L) : L[i] \in Files
        /\ held \in [Files -> Seq(Files \X Nat)]
        /\ \A f \in Files : \E n \in 0..Size[f] : held[f] = SubSeq(ZFile(f), 1, n)
    <2>1. L \in Seq(Files) /\ held \in [Files -> Seq(Files \X Nat)]
      BY <1>1, LinksAssumption DEF L
    <2>2. \A f \in Files : \E n \in 0..Size[f] : held[f] = SubSeq(ZFile(f), 1, n)
      BY <1>1, LinksAssumption
    <2>3. Len(L) \in Nat /\ \A i \in 1..Len(L) : L[i] \in Files
      BY <2>1
    <2> QED
      BY <2>1, <2>2, <2>3
  <1>4. /\ toR \in Seq(PacketsR) /\ Len(toR) = 1 /\ \A j \in 1..Len(toR) : j = 1 /\ toR[j] = Hdr("ZRQINIT")
        /\ toS \in Seq(PacketsS) /\ Len(toS) = 1 /\ \A j \in 1..Len(toS) : j = 1 /\ toS[j] = Hdr("ZRINIT")
    <2>1. Hdr("ZRQINIT") \in PacketsR /\ Hdr("ZRINIT") \in PacketsS
      BY PacketTypes
    <2>2. toR \in Seq(PacketsR) /\ Len(toR) = 1 /\ \A j \in 1..Len(toR) : j = 1 /\ toR[j] = Hdr("ZRQINIT")
      BY <1>1, <2>1, OneBlock
    <2>3. toS \in Seq(PacketsS) /\ Len(toS) = 1 /\ \A j \in 1..Len(toS) : j = 1 /\ toS[j] = Hdr("ZRINIT")
      BY <1>1, <2>1, OneBlock
    <2> QED
      BY <2>2, <2>3
  <1>5. ZTyped
    BY <1>1, <1>2, <1>3, <1>4 DEF ZTyped
  <1>6. Place
    BY <1>2 DEF Place, Sending
  <1>7. Past
    BY <1>1, <1>2, <1>3 DEF Past
  <1>8. Hands
    BY <1>2 DEF Hands, Receiving
  <1>9. Offers
    BY <1>4 DEF Offers, Hdr
  <1>10. Replies
    <2>1. \A j \in 1..Len(toS) : toS[j].type # "ZRPOS"
      BY <1>4 DEF Hdr
    <2>2. ~Sending
      BY <1>2 DEF Sending
    <2> QED
      BY <2>1, <2>2 DEF Replies
  <1>11. Names /\ Begun
    BY <1>2, <1>3 DEF Names, Begun
  <1>12. Frames
    <2>1. Taken = Hdr("BAD") /\ Coming = HdrAt("ZDATA", 0)
      BY <1>2 DEF Taken, Coming, InFrame, InFrameAs, Over
    <2> SUFFICES ASSUME NEW i \in 0..2, NEW k \in 0..2, i < k
                 PROVE  Follows(Ahead(toR, Taken, Coming, i), Ahead(toR, Taken, Coming, k))
      BY <1>4 DEF Frames, InOrder
    <2>2. CASE i = 0
      <3>1. Ahead(toR, Taken, Coming, i) = Hdr("BAD")
        BY <2>1, <2>2 DEF Ahead
      <3> QED
        BY <3>1, OutOfFrame
    <2>3. CASE i = 1 /\ k = 2
      <3>1. Ahead(toR, Taken, Coming, i) = Hdr("ZRQINIT") /\ Ahead(toR, Taken, Coming, k) = HdrAt("ZDATA", 0)
        BY <1>4, <2>1, <2>3 DEF Ahead
      <3> QED
        BY <3>1 DEF Follows, Goes, Hdr, HdrAt
    <2> QED
      BY <2>2, <2>3
  <1>13. Ends
    <2>1. \A j \in 1..Len(toR) : toR[j].type # "CAN"
      BY <1>4 DEF Hdr
    <2> QED
      BY <1>1, <2>1 DEF Ends
  <1>14. Inv
    BY <1>5, <1>6, <1>7, <1>8, <1>9, <1>10, <1>11, <1>12, <1>13 DEF Inv
  <1>15. Way!TInit
    <2>1. \A f \in Files : Len(ZFile(f)) = Size[f] /\ [g \in Files |-> ZFile(g)][f] = ZFile(f)
      BY ContentOf
    <2>2. {f \in Files : rlog[f] > 0} = {}
      BY <1>1
    <2>3. DOMAIN held = Files
      BY <1>3
    <2>4. \A f \in Files : \E n \in 0..Len([g \in Files |-> ZFile(g)][f]) :
             held[f] = SubSeq([g \in Files |-> ZFile(g)][f], 1, n)
      BY <1>3, <2>1
    <2> QED
      BY <1>1, <2>2, <2>3, <2>4 DEF Way!TInit, Way!Sendable, Way!Start
  <1> QED
    BY <1>14, <1>15

LEMMA NothingKept ==
    ASSUME Inv, UNCHANGED zvars
    PROVE  Inv'
  <1>1. UNCHANGED <<link, s, r, toR, toS, held, whole, slog, rlog, passed, declined, carrier>>
    BY DEF zvars
  <1>2. ZTyped'
    BY <1>1 DEF Inv, ZTyped, L
  <1>3. Place' /\ Past'
    BY <1>1 DEF Inv, Place, Past, L, Current, InJob, Sending, Elsewhere
  <1>4. Hands' /\ Offers'
    BY <1>1 DEF Inv, Hands, Offers, Receiving, InJob, L, Current, FitsAfter, Fits, FitsAs
  <1>5. Replies'
    BY <1>1 DEF Inv, Replies, L, Current, InJob, Sending
  <1>6. Names' /\ Begun'
    BY <1>1 DEF Inv, Names, Begun, Receiving, ZFile
  <1>7. Frames'
    BY <1>1 DEF Inv, Frames, Taken, Coming, InFrame, InFrameAs, Current, Over, InOrder, Ahead
  <1>8. Ends'
    BY <1>1 DEF Inv, Ends, Over
  <1> QED
    BY <1>2, <1>3, <1>4, <1>5, <1>6, <1>7, <1>8 DEF Inv

\* Each step keeps the invariant, and is one of the promise as long as it holds.
LEMMA InvGoesOn ==
    ASSUME IInv, ClosedTwice = {"stop"}, [ZNext]_zvars
    PROVE  IInv' /\ (misled \/ Way!TNext \/ UNCHANGED <<held, whole, rlog>>)
  <1>1. CASE misled
    BY <1>1, StaysMisled DEF IInv
  <1>2. CASE ~misled /\ Sender
    <2>1. Inv
      BY <1>2 DEF IInv
    <2>2. misled' \/ Inv'
      BY <1>2, <2>1, SenderKeeps
    <2>3. UNCHANGED <<held, whole, rlog>>
      BY <1>2, SenderWrites
    <2> QED
      BY <2>2, <2>3 DEF IInv
  <1>3. CASE ~misled /\ Receiver
    BY <1>3, ReceiverKeeps DEF IInv
  <1>4. CASE ~misled /\ Noise
    <2>1. Inv /\ UNCHANGED <<link, s, r, disk, logs, told, carrier>>
      BY <1>4 DEF IInv, Noise
    <2>2. Inv'
      BY <1>4, <2>1, NoiseForth, NoiseBack DEF Noise
    <2> QED
      BY <2>1, <2>2 DEF IInv, disk, logs
  <1>5. CASE ~misled /\ ZLoseCarrier
    BY <1>5, CarrierKept DEF IInv
  <1>6. CASE UNCHANGED zvars
    <2>1. UNCHANGED <<held, whole, rlog>>
      BY <1>6 DEF zvars
    <2>2. IInv'
      <3>1. misled' = misled /\ (Inv => Inv')
        BY <1>6, NothingKept DEF zvars
      <3> QED
        BY <3>1 DEF IInv
    <2> QED
      BY <2>1, <2>2
  <1> QED
    BY <1>1, <1>2, <1>3, <1>4, <1>5, <1>6 DEF ZNext

LEMMA InvAlways == ClosedTwice = {"stop"} => (ZSpec => []IInv)
  <1> SUFFICES ASSUME ClosedTwice = {"stop"} PROVE ZSpec => []IInv
    OBVIOUS
  <1>1. ZInit => IInv
    BY InvStarts DEF IInv
  <1>2. IInv /\ [ZNext]_zvars => IInv'
    BY InvGoesOn
  <1> QED
    BY <1>1, <1>2, PTL DEF ZSpec

\* Where a program that closes a file twice is stopped, and until a refusal is taken for
\* that of another file, all that happens to the receiver's directory and log is a step of
\* Transfer: a file grows by its own blocks in their order or is dropped, is closed as
\* whole only in full, and only a whole one is logged as received.
THEOREM ZDeliversCorrect == ClosedTwice = {"stop"} => (ZSpec => ZDelivers)
  <1> SUFFICES ASSUME ClosedTwice = {"stop"} PROVE ZSpec => ZDelivers
    OBVIOUS
  <1>1. ZSpec => []IInv
    BY InvAlways
  <1>2. ZInit => Way!TInit
    BY InvStarts
  <1>3. IInv /\ [ZNext]_zvars => [misled \/ Way!TNext]_(Way!tvars)
    <2> SUFFICES ASSUME IInv, [ZNext]_zvars PROVE [misled \/ Way!TNext]_(Way!tvars)
      OBVIOUS
    <2>1. misled \/ Way!TNext \/ UNCHANGED <<held, whole, rlog>>
      BY InvGoesOn
    <2>2. UNCHANGED <<held, whole, rlog>> => UNCHANGED Way!tvars
      BY DEF Way!tvars
    <2> QED
      BY <2>1, <2>2
  <1> QED
    BY <1>1, <1>2, <1>3, PTL DEF ZSpec, ZDelivers

\* On the same terms, a sender that ends well has brought over each file of its list,
\* or passed it over, and then it has not logged it as sent.
THEOREM OkMeansAllCorrect == ClosedTwice = {"stop"} => (ZSpec => []OkMeansAll)
  <1> SUFFICES ASSUME ClosedTwice = {"stop"} PROVE ZSpec => []OkMeansAll
    OBVIOUS
  <1>1. ZSpec => []IInv
    BY InvAlways
  <1>2. IInv => OkMeansAll
    <2> SUFFICES ASSUME Inv, s.st = "ok", NEW i \in DOMAIN L
                 PROVE  L[i] \in whole \/ (L[i] \in passed /\ slog[L[i]] = 0)
      BY DEF IInv, OkMeansAll, L
    <2>1. i \in 1..Len(L) /\ Len(L) \in Nat /\ s.job = Len(L) + 1
      BY ListType DEF Inv, Place
    <2> QED
      BY <2>1 DEF Inv, Past
  <1> QED
    BY <1>1, <1>2, PTL
=============================================================================
