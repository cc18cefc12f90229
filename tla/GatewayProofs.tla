--------------------------- MODULE GatewayProofs ----------------------------
(***************************************************************************)
(* What is proved of the parts around a connection, each for itself: the    *)
(* actions of clients, the screen of a device, the connection to codex and  *)
(* the status ball.                                                         *)
(***************************************************************************)
EXTENDS ClientActions, AdbScreen, CodexTransport, AgentStatus, SequenceTheorems, TLAPS

-----------------------------------------------------------------------------
(* An action comes to one runner at most, for any number of actions and     *)
(* connections, however they repeat and overlap.                            *)

ActionSteps == {"read", "mark", "record", "execute", "check", "send", "resume", "wait", "otherwise"}

\* Connection c works on an action that it was the first to mark.
WorksOnAction(c) == hand[c].step \notin {"read", "mark"}

ActionTypes ==
  /\ kindOf \in [Actions -> {"none", "exec", "input", "turn", "skill"}]
  /\ inboxOf \in [Conns -> Seq(Actions)]
  /\ hand \in [Conns -> [i : Int, step : ActionSteps]]
  /\ taken \in [Actions -> Nat] /\ recorded \in [Actions -> Nat]
  /\ marks \subseteq Actions

\* Nothing has become of action i yet.
Undone(i) == taken[i] = 0 /\ recorded[i] = 0 /\ i \notin refused

\* How far it is at a step.
StepOK(i, step) ==
  \/ /\ step = "record" /\ kindOf[i] = "exec" /\ Undone(i)
  \/ /\ step = "record" /\ kindOf[i] \in {"input", "turn"}
     /\ taken[i] = 1 /\ recorded[i] = 0 /\ i \notin refused
  \/ /\ step = "execute" /\ kindOf[i] = "exec"
     /\ taken[i] = 0 /\ recorded[i] \in {0, 1} /\ i \notin refused
  \/ /\ step \in {"check", "send", "resume", "wait", "otherwise"}
     /\ kindOf[i] \in {"input", "turn", "skill"} /\ Undone(i)

\* It has come to a runner, or it was refused.
DoneOK(i) ==
  /\ recorded[i] \in {0, 1}
  /\ (taken[i] = 1 /\ i \notin refused) \/ (taken[i] = 0 /\ i \in refused)
  /\ kindOf[i] \in {"input", "turn"} => recorded[i] = taken[i]

WorkersApart ==
  \A c, d \in Conns : WorksOnAction(c) /\ WorksOnAction(d) /\ hand[c].i = hand[d].i => c = d

WorkersOK == \A c \in Conns : WorksOnAction(c) => hand[c].i \in marks /\ StepOK(hand[c].i, hand[c].step)

MarkedOK ==
  \A i \in Actions :
    /\ (i \in marks /\ \A c \in Conns : WorksOnAction(c) => hand[c].i # i) => DoneOK(i)
    /\ i \notin marks \cup forgotten => Undone(i)

\* What is sent, read or marked has a kind, which it keeps; a forgotten id does
\* not come back.
KindsOK ==
  /\ \A c \in Conns : hand[c].step # "read" => hand[c].i \in Actions \ forgotten /\ kindOf[hand[c].i] # "none"
  /\ \A c \in Conns : \A n \in 1 .. Len(inboxOf[c]) :
       inboxOf[c][n] \in Actions \ forgotten /\ kindOf[inboxOf[c][n]] # "none"
  /\ \A i \in marks : kindOf[i] # "none"

\* The inductive invariant.
ActionsInv == ActionTypes /\ WorkersApart /\ WorkersOK /\ MarkedOK /\ KindsOK

LEMMA ActionsBegin == ActionsInit => ActionsInv
  BY DEF ActionsInit, ActionsInv, ActionTypes, WorkersApart, WorkersOK, MarkedOK, KindsOK, WorksOnAction,
         Undone, Free, ActionSteps

\* A step of a connection at work on its action, which changes what has become
\* of that action alone.
LEMMA WorkKeepsActions ==
  ASSUME ActionsInv, NEW c \in Conns, WorksOnAction(c), NEW i, i = hand[c].i,
         NEW h \in {Free} \cup [i : {i}, step : ActionSteps \ {"read", "mark"}],
         hand' = [hand EXCEPT ![c] = h],
         taken' \in [Actions -> Nat], recorded' \in [Actions -> Nat],
         \A j \in Actions : j # i => taken'[j] = taken[j] /\ recorded'[j] = recorded[j]
                                       /\ (j \in refused' <=> j \in refused),
         UNCHANGED <<kindOf, inboxOf, marks, forgotten>>,
         IF h = Free THEN DoneOK(i)' ELSE StepOK(i, h.step)'
  PROVE  ActionsInv'
<1> USE DEF ActionsInv
<1>1. i \in Actions /\ i \in marks /\ i \notin forgotten
  BY DEF WorksOnAction, KindsOK, WorkersOK
<1>2. ActionTypes'
  <2>1. h \in [i : Int, step : ActionSteps]
    BY <1>1 DEF Free, ActionSteps, Actions
  <2> QED  BY <2>1 DEF ActionTypes
<1>3. /\ hand'[c] = h
      /\ \A d \in Conns : d # c => hand'[d] = hand[d]
  BY DEF ActionTypes
<1>4. Free.step = "read" /\ (h # Free => h.i = i /\ h.step \notin {"read", "mark"})
  BY DEF Free
<1>5. WorkersApart'
  BY <1>3, <1>4 DEF WorkersApart, WorksOnAction
<1>6. WorkersOK'
  <2> SUFFICES ASSUME NEW d \in Conns, WorksOnAction(d)' PROVE (hand[d].i \in marks /\ StepOK(hand[d].i, hand[d].step))'
    BY DEF WorkersOK
  <2>1. CASE d = c
    BY <1>1, <1>3, <1>4, <2>1 DEF WorksOnAction
  <2>2. CASE d # c
    <3>1. WorksOnAction(d) /\ hand[d].i # i /\ hand'[d] = hand[d] /\ hand[d].i \in Actions
      BY <1>3, <2>2 DEF WorksOnAction, WorkersApart, KindsOK
    <3> QED  BY <3>1 DEF WorkersOK, StepOK, Undone
  <2> QED  BY <2>1, <2>2
<1>7. MarkedOK'
  <2> SUFFICES ASSUME NEW j \in Actions
               PROVE  /\ (j \in marks' /\ \A d \in Conns : WorksOnAction(d)' => hand'[d].i # j) => DoneOK(j)'
                      /\ j \notin marks' \cup forgotten' => Undone(j)'
    BY DEF MarkedOK
  <2>1. CASE j = i
    BY <1>1, <1>3, <1>4, <2>1 DEF WorksOnAction
  <2>2. CASE j # i
    <3>1. (\A d \in Conns : WorksOnAction(d)' => hand'[d].i # j) => \A d \in Conns : WorksOnAction(d) => hand[d].i # j
      BY <1>3, <2>2 DEF WorksOnAction
    <3> QED  BY <3>1, <2>2 DEF MarkedOK, DoneOK, Undone
  <2> QED  BY <2>1, <2>2
<1>8. KindsOK'
  BY <1>1, <1>3, <1>4 DEF KindsOK, Free
<1> QED  BY <1>2, <1>5, <1>6, <1>7, <1>8

\* The ways a step of a connection can end, of an action of which nothing has
\* become but, maybe, an entry in the log.
LEMMA OutcomeKeepsActions ==
  ASSUME ActionsInv, NEW c \in Conns, WorksOnAction(c), NEW i, i = hand[c].i,
         taken[i] = 0, hand[c].step # "record",
         \/ Refuses(c) \/ Takes(c)
         \/ /\ hand[c].step # "execute" /\ UNCHANGED <<refused, taken>>
            /\ \E s \in {"send", "resume", "wait", "otherwise"} : Moves(c, s),
         UNCHANGED <<kindOf, inboxOf, marks, forgotten, recorded>>
  PROVE  ActionsInv'
<1>1. i \in Actions /\ StepOK(i, hand[c].step)
  BY DEF ActionsInv, WorksOnAction, KindsOK, WorkersOK
<1>2. /\ i \notin refused /\ recorded[i] \in {0, 1}
      /\ kindOf[i] \in {"input", "turn"} => recorded[i] = 0
      /\ hand \in [Conns -> [i : Int, step : ActionSteps]]
      /\ taken \in [Actions -> Nat] /\ recorded \in [Actions -> Nat]
  BY <1>1 DEF ActionsInv, StepOK, Undone, ActionTypes
<1>3. CASE Refuses(c)
  <2>1. DoneOK(i)'
    BY <1>1, <1>2, <1>3 DEF Refuses, DoneOK
  <2> QED  BY <1>1, <1>2, <1>3, <2>1, WorkKeepsActions DEF Refuses, Leaves
<1>4. CASE Takes(c)
  <2>1. /\ taken' \in [Actions -> Nat] /\ taken'[i] = 1
        /\ \A j \in Actions : j # i => taken'[j] = taken[j]
        /\ refused' = refused
    BY <1>1, <1>2, <1>4 DEF Takes
  <2>2. CASE kindOf[i] \in {"input", "turn"}
    <3> DEFINE h == [i |-> i, step |-> "record"]
    <3>1. hand' = [hand EXCEPT ![c] = h]
      BY <1>2, <1>4, <2>2 DEF Takes, Moves
    <3>2. StepOK(i, "record")'
      BY <1>1, <1>2, <2>1, <2>2 DEF StepOK
    <3>3. h # Free /\ h \in [i : {i}, step : ActionSteps \ {"read", "mark"}] /\ h.step = "record"
      BY DEF Free, ActionSteps
    <3> HIDE DEF h
    <3>4. recorded' \in [Actions -> Nat] /\ StepOK(i, h.step)'
      BY <1>2, <3>2, <3>3
    <3>5. IF h = Free THEN DoneOK(i)' ELSE StepOK(i, h.step)'
      BY <3>3, <3>4
    <3> QED  BY <1>1, <1>2, <2>1, <3>1, <3>3, <3>4, <3>5, WorkKeepsActions
  <2>3. CASE kindOf[i] \notin {"input", "turn"}
    <3>1. DoneOK(i)'
      BY <1>1, <1>2, <2>1, <2>3 DEF DoneOK
    <3>2. hand' = [hand EXCEPT ![c] = Free]
      BY <1>4, <2>3 DEF Takes, Leaves
    <3> QED  BY <1>1, <1>2, <2>1, <3>1, <3>2, WorkKeepsActions
  <2> QED  BY <2>2, <2>3
<1>5. ASSUME NEW s \in {"send", "resume", "wait", "otherwise"}, Moves(c, s), UNCHANGED <<refused, taken>>,
             hand[c].step # "execute"
      PROVE  ActionsInv'
  <2> DEFINE h == [i |-> i, step |-> s]
  <2>1. hand' = [hand EXCEPT ![c] = h]
    <3>1. hand[c] \in [i : Int, step : ActionSteps] /\ s \in ActionSteps
      BY <1>2 DEF ActionSteps
    <3>2. [hand[c] EXCEPT !.step = s] = h
      BY <3>1
    <3> QED  BY <1>5, <3>2 DEF Moves
  <2>2. StepOK(i, s)'
    BY <1>1, <1>5 DEF StepOK, Undone
  <2>3. h # Free /\ h \in [i : {i}, step : ActionSteps \ {"read", "mark"}] /\ h.step = s
    BY DEF Free, ActionSteps
  <2> HIDE DEF h
  <2> QED  BY <1>1, <1>2, <1>5, <2>1, <2>2, <2>3, WorkKeepsActions
<1> QED  BY <1>3, <1>4, <1>5

\* The client, the registry and the runner change nothing of an action that is marked.
LEMMA ClientKeepsActions ==
  ASSUME ActionsInv, (\E i \in Actions : Sends(i)) \/ Disconnects \/ Connects \/ RunnerActs \/ SessionForgets
  PROVE  ActionsInv'
<1> USE DEF ActionsInv
<1>1. ASSUME NEW i \in Actions, Sends(i) PROVE ActionsInv'
  <2> USE <1>1 DEF Sends
  <2>1. /\ kindOf' \in [Actions -> {"none", "exec", "input", "turn", "skill"}]
        /\ kindOf'[i] # "none"
        /\ \A j \in Actions : j # i \/ kindOf[j] # "none" => kindOf'[j] = kindOf[j]
    BY DEF ActionTypes
  <2>2. inboxOf' = [inboxOf EXCEPT ![conn] = <<i>>] /\ <<i>> \in Seq(Actions)
    OBVIOUS
  <2>3. ActionTypes'
    BY <2>1, <2>2 DEF ActionTypes
  <2>4. \A c \in Conns : inboxOf'[c] = inboxOf[c] \/ inboxOf'[c] = <<i>>
    BY <2>2 DEF ActionTypes
  <2>5. KindsOK'
    <3>1. \A c \in Conns : \A n \in 1 .. Len(inboxOf'[c]) :
             inboxOf'[c][n] \in Actions \ forgotten' /\ kindOf'[inboxOf'[c][n]] # "none"
      <4> TAKE c \in Conns
      <4> TAKE n \in 1 .. Len(inboxOf'[c])
      <4>1. CASE inboxOf'[c] = inboxOf[c]
        BY <2>1, <4>1 DEF KindsOK
      <4>2. CASE inboxOf'[c] = <<i>>
        BY <2>1, <4>2
      <4> QED  BY <2>4, <4>1, <4>2
    <3>2. /\ \A c \in Conns : hand'[c].step # "read" =>
                hand'[c].i \in Actions \ forgotten' /\ kindOf'[hand'[c].i] # "none"
          /\ \A j \in marks : kindOf'[j] # "none"
      BY <2>1 DEF KindsOK, ActionTypes
    <3> QED  BY <3>1, <3>2 DEF KindsOK
  <2>6. WorkersOK' /\ WorkersApart'
    BY <2>1 DEF WorkersOK, WorkersApart, WorksOnAction, StepOK, Undone, KindsOK
  <2>7. MarkedOK'
    BY <2>1 DEF MarkedOK, DoneOK, Undone, KindsOK, WorksOnAction
  <2> QED  BY <2>3, <2>5, <2>6, <2>7
<1>2. CASE Disconnects
  <2>1. \A c \in Conns : inboxOf'[c] = inboxOf[c] \/ inboxOf'[c] = <<>>
    BY <1>2 DEF Disconnects, ActionTypes
  <2>2. \A c \in Conns : \A n \in 1 .. Len(inboxOf'[c]) :
           inboxOf'[c][n] \in Actions \ forgotten /\ kindOf[inboxOf'[c][n]] # "none"
    BY <2>1 DEF KindsOK
  <2>3. inboxOf' \in [Conns -> Seq(Actions)]
    <3>1. inboxOf \in [Conns -> Seq(Actions)] /\ <<>> \in Seq(Actions)
      BY DEF ActionTypes
    <3>2. [inboxOf EXCEPT ![conn] = <<>>] \in [Conns -> Seq(Actions)]
      BY <3>1
    <3> QED  BY <1>2, <3>1, <3>2 DEF Disconnects
  <2> QED  BY <1>2, <2>2, <2>3 DEF Disconnects, ActionTypes, WorkersApart, WorkersOK, MarkedOK,
               KindsOK, WorksOnAction, StepOK, DoneOK, Undone
<1>3. CASE Connects
  BY <1>3 DEF Connects, ActionTypes, WorkersApart, WorkersOK, MarkedOK, KindsOK, WorksOnAction, StepOK,
              DoneOK, Undone
<1>4. CASE RunnerActs
  BY <1>4 DEF RunnerActs, clientSide, ActionTypes, WorkersApart, WorkersOK, MarkedOK, KindsOK,
              WorksOnAction, StepOK, DoneOK, Undone
<1>5. CASE SessionForgets
  <2> USE <1>5 DEF SessionForgets, clientSide
  <2>1. \A c \in Conns : ~WorksOnAction(c) /\ hand[c].step = "read"
    BY DEF WorksOnAction, Free
  <2>2. ActionTypes' /\ WorkersApart' /\ WorkersOK' /\ MarkedOK'
    BY <2>1 DEF ActionTypes, WorkersApart, WorkersOK, MarkedOK, WorksOnAction, Undone
  <2>3. KindsOK'
    BY <2>1 DEF KindsOK
  <2> QED  BY <2>2, <2>3
<1> QED  BY <1>1, <1>2, <1>3, <1>4, <1>5

\* A message is taken from the inbox into the hand.
LEMMA ReadKeepsActions ==
  ASSUME ActionsInv, NEW c \in Conns, ReadMessage(c)
  PROVE  ActionsInv'
<1> USE DEF ActionsInv, ReadMessage, At
<1>1. inboxOf[c] \in Seq(Actions) /\ inboxOf[c] # <<>>
  BY DEF ActionTypes
<1>2. /\ Head(inboxOf[c]) = inboxOf[c][1] /\ 1 \in 1 .. Len(inboxOf[c])
      /\ Tail(inboxOf[c]) \in Seq(Actions)
      /\ \A n \in 1 .. Len(Tail(inboxOf[c])) :
           Tail(inboxOf[c])[n] = inboxOf[c][n + 1] /\ n + 1 \in 1 .. Len(inboxOf[c])
  BY <1>1
<1>3. /\ hand'[c] = [i |-> Head(inboxOf[c]), step |-> "mark"]
      /\ \A d \in Conns : d # c => hand'[d] = hand[d] /\ inboxOf'[d] = inboxOf[d]
      /\ inboxOf'[c] = Tail(inboxOf[c])
  BY DEF ActionTypes
<1>4. Head(inboxOf[c]) \in Actions \ forgotten /\ kindOf[Head(inboxOf[c])] # "none"
  BY <1>2 DEF KindsOK
<1>5. ActionTypes'
  BY <1>2, <1>4 DEF ActionTypes, ActionSteps, Actions
<1>6. \A d \in Conns : (WorksOnAction(d)' <=> WorksOnAction(d)) /\ (WorksOnAction(d) => hand'[d] = hand[d])
  BY <1>3 DEF WorksOnAction
<1>7. WorkersApart' /\ WorkersOK' /\ MarkedOK'
  BY <1>6 DEF WorkersApart, WorkersOK, MarkedOK, StepOK, DoneOK, Undone
<1>8. KindsOK'
  BY <1>2, <1>3, <1>4 DEF KindsOK
<1> QED  BY <1>5, <1>7, <1>8
\* An id is remembered: of a new one the work begins, of a known one there is
\* none to do.
LEMMA AckKeepsActions ==
  ASSUME ActionsInv, NEW c \in Conns, AckClientAction(c)
  PROVE  ActionsInv'
<1> USE DEF ActionsInv
<1>0. PICK i : i = hand[c].i
  OBVIOUS
<1>1. /\ At(c, "mark") /\ marks' = marks \cup {i}
      /\ IF i \in marks THEN Leaves(c) ELSE \E step \in FirstSteps(kindOf[i]) : Moves(c, step)
      /\ UNCHANGED <<kindOf, inboxOf, forgotten, taken, recorded, refused>>
  BY <1>0 DEF AckClientAction, Accepted
<1>2. i \in Actions \ forgotten /\ kindOf[i] # "none"
  BY <1>0, <1>1 DEF At, KindsOK
<1>3. kindOf[i] \in {"exec", "input", "turn", "skill"}
  BY <1>2 DEF ActionTypes
<1>4. ~WorksOnAction(c) /\ hand \in [Conns -> [i : Int, step : ActionSteps]]
  BY <1>1 DEF At, WorksOnAction, ActionTypes
<1>5. \A d \in Conns : d # c => hand'[d] = hand[d]
  BY <1>1, <1>4 DEF Leaves, Moves
<1>6. CASE i \in marks
  <2>1. hand' = [hand EXCEPT ![c] = Free] /\ marks' = marks
    BY <1>1, <1>6 DEF Leaves
  <2>2. hand'[c] = Free /\ ~WorksOnAction(c)' /\ ActionTypes'
    BY <1>1, <1>4, <2>1 DEF Free, WorksOnAction, ActionSteps, ActionTypes
  <2>3. \A d \in Conns : (WorksOnAction(d)' <=> WorksOnAction(d)) /\ (WorksOnAction(d) => hand'[d] = hand[d])
    BY <1>4, <1>5, <2>2 DEF WorksOnAction
  <2>4. WorkersApart' /\ WorkersOK' /\ MarkedOK'
    BY <1>1, <2>1, <2>3 DEF WorkersApart, WorkersOK, MarkedOK, StepOK, DoneOK, Undone
  <2>5. KindsOK'
    BY <1>1, <1>5, <2>1, <2>2 DEF KindsOK, Free
  <2> QED  BY <2>2, <2>4, <2>5
<1>7. CASE i \notin marks
  <2>1. PICK step \in FirstSteps(kindOf[i]) : Moves(c, step)
    BY <1>1, <1>7
  <2>2. \/ step \in {"record", "execute"} /\ kindOf[i] = "exec"
        \/ step = "check" /\ kindOf[i] = "input"
        \/ step = "send" /\ kindOf[i] \in {"turn", "skill"}
    <3>1. CASE kindOf[i] = "exec"
      BY <2>1, <3>1 DEF FirstSteps
    <3>2. CASE kindOf[i] = "input"
      BY <2>1, <3>2 DEF FirstSteps
    <3>3. CASE kindOf[i] \in {"turn", "skill"}
      BY <2>1, <3>3 DEF FirstSteps
    <3> QED  BY <1>3, <3>1, <3>2, <3>3
  <2>3. hand'[c] = [i |-> i, step |-> step] /\ WorksOnAction(c)'
    <3>1. hand[c] \in [i : Int, step : ActionSteps] /\ step \in ActionSteps \ {"read", "mark"}
      BY <1>4, <2>2 DEF ActionSteps
    <3>2. hand'[c] = [hand[c] EXCEPT !.step = step]
      BY <1>4, <2>1 DEF Moves
    <3> QED  BY <1>0, <3>1, <3>2 DEF WorksOnAction
  <2>4. Undone(i) /\ StepOK(i, step)'
    <3>1. Undone(i)
      BY <1>2, <1>7 DEF MarkedOK
    <3>2. StepOK(i, step)
      BY <2>2, <3>1 DEF StepOK, Undone
    <3> QED  BY <1>1, <3>1, <3>2 DEF StepOK, Undone
  <2>5. \A d \in Conns : WorksOnAction(d) => hand[d].i # i
    BY <1>7 DEF WorkersOK
  <2>6. ActionTypes'
    <3>1. [i |-> i, step |-> step] \in [i : Int, step : ActionSteps]
      BY <1>2, <2>2 DEF Actions, ActionSteps
    <3>2. hand' \in [Conns -> [i : Int, step : ActionSteps]]
      BY <1>4, <1>5, <2>1, <2>3, <3>1 DEF Moves
    <3> QED  BY <1>1, <1>2, <3>2 DEF ActionTypes
  <2>7. WorkersApart'
    BY <1>5, <2>3, <2>5 DEF WorkersApart, WorksOnAction
  <2>8. WorkersOK'
    <3> SUFFICES ASSUME NEW d \in Conns, WorksOnAction(d)'
                 PROVE  (hand[d].i \in marks /\ StepOK(hand[d].i, hand[d].step))'
      BY DEF WorkersOK
    <3>1. CASE d = c
      BY <1>1, <2>3, <2>4, <3>1
    <3>2. CASE d # c
      BY <1>1, <1>5, <3>2 DEF WorkersOK, WorksOnAction, StepOK, Undone
    <3> QED  BY <3>1, <3>2
  <2>9. MarkedOK'
    BY <1>0, <1>1, <1>4, <1>5, <2>3 DEF MarkedOK, WorksOnAction, DoneOK, Undone
  <2>10. KindsOK'
    BY <1>1, <1>2, <1>5, <2>3 DEF KindsOK
  <2> QED  BY <2>6, <2>7, <2>8, <2>9, <2>10
<1> QED  BY <1>6, <1>7

\* A command's entry in the log comes before it is executed, a text's after.
LEMMA RecordKeepsActions ==
  ASSUME ActionsInv, NEW c \in Conns, AppendUserEntry(c)
  PROVE  ActionsInv'
<1>1. WorksOnAction(c) /\ hand[c].step = "record" /\ hand \in [Conns -> [i : Int, step : ActionSteps]]
  BY DEF AppendUserEntry, At, WorksOnAction, ActionsInv, ActionTypes
<1>2. PICK i : i = hand[c].i
  OBVIOUS
<1>3. i \in Actions /\ StepOK(i, "record") /\ recorded \in [Actions -> Nat] /\ taken \in [Actions -> Nat]
  BY <1>1, <1>2 DEF ActionsInv, WorksOnAction, KindsOK, WorkersOK, ActionTypes
<1>4. /\ recorded' \in [Actions -> Nat] /\ recorded'[i] = recorded[i] + 1
      /\ \A j \in Actions : j # i => recorded'[j] = recorded[j]
      /\ UNCHANGED <<kindOf, inboxOf, marks, forgotten, taken, refused>>
  BY <1>2, <1>3 DEF AppendUserEntry, clientSide
<1>5. CASE kindOf[i] = "exec"
  <2> DEFINE h == [i |-> i, step |-> "execute"]
  <2>1. hand' = [hand EXCEPT ![c] = h]
    <3>1. [hand[c] EXCEPT !.step = "execute"] = h
      BY <1>1, <1>2
    <3> QED  BY <1>2, <1>5, <3>1 DEF AppendUserEntry, Moves
  <2>2. StepOK(i, "execute")'
    BY <1>3, <1>4, <1>5 DEF StepOK, Undone
  <2>3. h # Free /\ h \in [i : {i}, step : ActionSteps \ {"read", "mark"}] /\ h.step = "execute"
    BY DEF Free, ActionSteps
  <2> HIDE DEF h
  <2>4. IF h = Free THEN DoneOK(i)' ELSE StepOK(i, h.step)'
    BY <2>2, <2>3
  <2> QED  BY <1>1, <1>2, <1>3, <1>4, <2>1, <2>3, <2>4, WorkKeepsActions
<1>6. CASE kindOf[i] # "exec"
  <2>1. hand' = [hand EXCEPT ![c] = Free]
    BY <1>2, <1>6 DEF AppendUserEntry, Leaves
  <2>2. DoneOK(i)'
    BY <1>3, <1>4, <1>6 DEF StepOK, DoneOK
  <2> QED  BY <1>1, <1>2, <1>3, <1>4, <2>1, <2>2, WorkKeepsActions
<1> QED  BY <1>5, <1>6

\* An action goes to a runner, is refused, or is tried another way.
LEMMA RunnerKeepsActions ==
  ASSUME ActionsInv, NEW c \in Conns,
         \/ Executes(c) \/ InputChecks(c) \/ SendInputFirst(c) \/ ResumeExecutes(c)
         \/ InputWhenReady(c) \/ Otherwise(c)
  PROVE  ActionsInv'
<1>1. WorksOnAction(c) /\ hand[c].step # "record"
  BY DEF Executes, InputChecks, SendInputFirst, ResumeExecutes, InputWhenReady, Otherwise, At, WorksOnAction
<1>2. PICK i : i = hand[c].i
  OBVIOUS
<1>3. taken[i] = 0
  BY <1>1, <1>2 DEF ActionsInv, WorkersOK, StepOK, Undone
<1>4. UNCHANGED <<kindOf, inboxOf, marks, forgotten, recorded>>
  BY DEF Executes, InputChecks, SendInputFirst, ResumeExecutes, InputWhenReady, Otherwise, clientSide
<1>5. \/ Refuses(c) \/ Takes(c)
      \/ /\ hand[c].step # "execute" /\ UNCHANGED <<refused, taken>>
         /\ \E s \in {"send", "resume", "wait", "otherwise"} : Moves(c, s)
  BY DEF Executes, InputChecks, SendInputFirst, ResumeExecutes, InputWhenReady, Otherwise, At,
         ExecuteNew, ActionFails
<1> QED  BY <1>1, <1>2, <1>3, <1>4, <1>5, OutcomeKeepsActions

LEMMA ActionsGoOn == ActionsInv /\ [ActionsNext]_actionVars => ActionsInv'
<1> SUFFICES ASSUME ActionsInv, [ActionsNext]_actionVars PROVE ActionsInv'
  OBVIOUS
<1>1. CASE UNCHANGED actionVars
  BY <1>1 DEF actionVars, ActionsInv, ActionTypes, WorkersApart, WorkersOK, MarkedOK, KindsOK, WorksOnAction,
              StepOK, DoneOK, Undone
<1>2. ASSUME NEW c \in Conns, ReadMessage(c) PROVE ActionsInv'
  BY <1>2, ReadKeepsActions
<1>3. ASSUME NEW c \in Conns, AckClientAction(c) PROVE ActionsInv'
  BY <1>3, AckKeepsActions
<1>4. ASSUME NEW c \in Conns, AppendUserEntry(c) PROVE ActionsInv'
  BY <1>4, RecordKeepsActions
<1>5. ASSUME NEW c \in Conns,
             \/ Executes(c) \/ InputChecks(c) \/ SendInputFirst(c) \/ ResumeExecutes(c)
             \/ InputWhenReady(c) \/ Otherwise(c)
      PROVE  ActionsInv'
  BY <1>5, RunnerKeepsActions
<1>6. CASE (\E i \in Actions : Sends(i)) \/ Disconnects \/ Connects \/ RunnerActs \/ SessionForgets
  BY <1>6, ClientKeepsActions
<1> QED  BY <1>1, <1>2, <1>3, <1>4, <1>5, <1>6 DEF ActionsNext

\* However often a client repeats an action (MarkClientAction, ackClientAction),
\* over however many connections, it comes to one runner at most.
THEOREM ActionNeverTwice == ActionsSpec => []ActionTakenOnce
<1>1. ActionsInv => ActionTakenOnce
  <2> SUFFICES ASSUME ActionsInv, NEW i \in Actions, i \in marks
               PROVE  /\ taken[i] <= 1 /\ recorded[i] <= 1
                      /\ taken[i] = 1 => i \notin refused
                      /\ (\A c \in Conns : hand[c].i # i) =>
                           /\ taken[i] = 1 \/ i \in refused
                           /\ kindOf[i] \in {"input", "turn"} => recorded[i] = taken[i]
    BY DEF ActionTakenOnce
  <2>1. CASE \A c \in Conns : WorksOnAction(c) => hand[c].i # i
    <3>1. DoneOK(i)
      BY <2>1 DEF ActionsInv, MarkedOK
    <3> QED  BY <3>1 DEF DoneOK
  <2>2. ASSUME NEW c \in Conns, WorksOnAction(c), hand[c].i = i
        PROVE  taken[i] \in {0, 1} /\ recorded[i] \in {0, 1} /\ (taken[i] = 1 => i \notin refused)
    <3>1. StepOK(i, hand[c].step)
      BY <2>2 DEF ActionsInv, WorkersOK
    <3> QED  BY <3>1 DEF StepOK, Undone
  <2> QED  BY <2>1, <2>2
<1> QED  BY <1>1, ActionsBegin, ActionsGoOn, PTL DEF ActionsSpec

-----------------------------------------------------------------------------
(* A screen that is recorded is current or about to be closed, and the      *)
(* device is watched in one way at a time, for any number of screens.       *)

\* What the action of the connection has still to do, and which fields it has
\* emptied by then: whoever else stops screens, only this goroutine starts one.
PlanKept ==
  \/ todo \in {<<>>, <<"peer">>, <<"preview", "peer">>, <<"answer">>}
  \/ todo = <<"peer", "preview", "new preview">>
  \/ todo = <<"preview", "new preview">> /\ current.peer = 0
  \/ todo = <<"new preview">> /\ current.peer = 0 /\ current.preview = 0
  \/ todo = <<"preview", "peer", "new peer", "answer">>
  \/ todo = <<"peer", "new peer", "answer">> /\ current.preview = 0
  \/ todo = <<"new peer", "answer">> /\ current.peer = 0 /\ current.preview = 0

ScreensOwned == unclosed \subseteq takenOff \cup {current.peer, current.preview}

WatchedOneWay == current.peer = 0 \/ current.preview = 0

ScreenTypes ==
  /\ screens \in Seq({"peer", "preview"})
  /\ current \in [{"peer", "preview"} -> Nat]
  /\ 0 \notin unclosed

\* The inductive invariant.
ScreensInv == ScreenTypes /\ PlanKept /\ ScreensOwned /\ WatchedOneWay

LEMMA ScreensBegin == AdbInit => ScreensInv
  BY DEF AdbInit, ScreensInv, ScreenTypes, PlanKept, ScreensOwned, WatchedOneWay

\* A field that is taken off leaves its screen to whoever took it.
LEMMA TakesOffKeepsScreens ==
  ASSUME ScreensInv, NEW k \in {"peer", "preview"}, TakesOff(k), UNCHANGED <<screens, unclosed>>,
         UNCHANGED todo \/ PlanKept'
  PROVE  ScreensInv'
<1> USE DEF ScreensInv
<1>1. /\ current' \in [{"peer", "preview"} -> Nat]
      /\ current'[k] = 0 /\ \A l \in {"peer", "preview"} : l # k => current'[l] = current[l]
  BY DEF TakesOff, ScreenTypes
<1>2. ScreenTypes'
  BY <1>1 DEF ScreenTypes
<1>3. ScreensOwned' /\ WatchedOneWay'
  BY <1>1 DEF ScreensOwned, WatchedOneWay, TakesOff, ScreenTypes
<1>4. PlanKept'
  <2>1. (current.peer = 0 => current'.peer = 0) /\ (current.preview = 0 => current'.preview = 0)
    BY <1>1
  <2> QED  BY <2>1, Zenon DEF PlanKept
<1> QED  BY <1>2, <1>3, <1>4

\* What each plan begins with, and what is left of it.
LEMMA PlanSteps ==
  /\ Head(<<"peer">>) = "peer"
     /\ Tail(<<"peer">>) = <<>>
  /\ Head(<<"answer">>) = "answer"
     /\ Tail(<<"answer">>) = <<>>
  /\ Head(<<"new preview">>) = "new preview"
     /\ Tail(<<"new preview">>) = <<>>
  /\ Head(<<"preview", "peer">>) = "preview"
     /\ Tail(<<"preview", "peer">>) = <<"peer">>
  /\ Head(<<"preview", "new preview">>) = "preview"
     /\ Tail(<<"preview", "new preview">>) = <<"new preview">>
  /\ Head(<<"new peer", "answer">>) = "new peer"
     /\ Tail(<<"new peer", "answer">>) = <<"answer">>
  /\ Head(<<"peer", "preview", "new preview">>) = "peer"
     /\ Tail(<<"peer", "preview", "new preview">>) = <<"preview", "new preview">>
  /\ Head(<<"peer", "new peer", "answer">>) = "peer"
     /\ Tail(<<"peer", "new peer", "answer">>) = <<"new peer", "answer">>
  /\ Head(<<"preview", "peer", "new peer", "answer">>) = "preview"
     /\ Tail(<<"preview", "peer", "new peer", "answer">>) = <<"peer", "new peer", "answer">>
<1>1. PICK b, a, np, nv, r :
        b = "peer" /\ a = "preview" /\ np = "new peer" /\ nv = "new preview" /\ r = "answer"
  OBVIOUS
<1>2. Head(<<b>>) = b /\ Tail(<<b>>) = <<>>
  OBVIOUS
<1>3. Head(<<r>>) = r /\ Tail(<<r>>) = <<>>
  OBVIOUS
<1>4. Head(<<nv>>) = nv /\ Tail(<<nv>>) = <<>>
  OBVIOUS
<1>5. Head(<<a, b>>) = a /\ Tail(<<a, b>>) = <<b>>
  OBVIOUS
<1>6. Head(<<a, nv>>) = a /\ Tail(<<a, nv>>) = <<nv>>
  OBVIOUS
<1>7. Head(<<np, r>>) = np /\ Tail(<<np, r>>) = <<r>>
  OBVIOUS
<1>8. Head(<<b, a, nv>>) = b /\ Tail(<<b, a, nv>>) = <<a, nv>>
  OBVIOUS
<1>9. Head(<<b, np, r>>) = b /\ Tail(<<b, np, r>>) = <<np, r>>
  OBVIOUS
<1>10. Head(<<a, b, np, r>>) = a /\ Tail(<<a, b, np, r>>) = <<b, np, r>>
  OBVIOUS
<1> QED  BY <1>1, <1>2, <1>3, <1>4, <1>5, <1>6, <1>7, <1>8, <1>9, <1>10, Zenon

\* ConnStops takes off the field that its plan names next.
LEMMA StopsKeepScreens ==
  ASSUME ScreensInv, ConnStops
  PROVE  ScreensInv'
<1> USE DEF ScreensInv
<1>1. PICK k \in {"peer", "preview"} :
        /\ k = Head(todo) /\ TakesOff(k) /\ todo' = Tail(todo) /\ UNCHANGED <<screens, unclosed>>
  BY DEF ConnStops
<1>2. /\ current'[k] = 0
      /\ \A l \in {"peer", "preview"} : l # k => current'[l] = current[l]
  BY <1>1 DEF TakesOff, ScreenTypes
<1>3. PlanKept'
  <2>1. CASE todo = <<>>
    BY <2>1 DEF ConnStops
  <2>2. CASE todo = <<"peer">>
    <3>1. todo' = <<>>
      BY <1>1, <2>2, PlanSteps, Zenon
    <3> QED  BY <3>1 DEF PlanKept
  <2>3. CASE todo = <<"preview", "peer">>
    <3>1. todo' = <<"peer">>
      BY <1>1, <2>3, PlanSteps, Zenon
    <3> QED  BY <3>1 DEF PlanKept
  <2>4. CASE todo \in {<<"answer">>, <<"new preview">>, <<"new peer", "answer">>}
    BY <1>1, <2>4, PlanSteps, Zenon
  <2>5. CASE todo = <<"peer", "preview", "new preview">>
    <3>1. todo' = <<"preview", "new preview">> /\ k = "peer"
      BY <1>1, <2>5, PlanSteps, Zenon
    <3> QED  BY <1>2, <3>1 DEF PlanKept
  <2>6. CASE todo = <<"preview", "new preview">> /\ current.peer = 0
    <3>1. todo' = <<"new preview">> /\ k = "preview"
      BY <1>1, <2>6, PlanSteps, Zenon
    <3> QED  BY <1>2, <2>6, <3>1 DEF PlanKept
  <2>7. CASE todo = <<"preview", "peer", "new peer", "answer">>
    <3>1. todo' = <<"peer", "new peer", "answer">> /\ k = "preview"
      BY <1>1, <2>7, PlanSteps, Zenon
    <3> QED  BY <1>2, <3>1 DEF PlanKept
  <2>8. CASE todo = <<"peer", "new peer", "answer">> /\ current.preview = 0
    <3>1. todo' = <<"new peer", "answer">> /\ k = "peer"
      BY <1>1, <2>8, PlanSteps, Zenon
    <3> QED  BY <1>2, <2>8, <3>1 DEF PlanKept
  <2> QED  BY <2>1, <2>2, <2>3, <2>4, <2>5, <2>6, <2>7, <2>8, Zenon DEF PlanKept
<1> QED  BY <1>1, <1>3, TakesOffKeepsScreens

\* ConnStarts meets empty fields.
LEMMA StartsMeetsEmpty ==
  ASSUME ScreensInv, ConnStarts
  PROVE  current.peer = 0 /\ current.preview = 0 /\ todo' \in {<<>>, <<"answer">>}
<1> USE DEF ScreensInv
<1>1. todo # <<>> /\ Head(todo) \in {"new peer", "new preview"} /\ todo' = Tail(todo)
  BY DEF ConnStarts
<1>2. current.peer = 0 /\ current.preview = 0 /\ todo' \in {<<>>, <<"answer">>}
  <2>1. CASE todo = <<"new preview">> /\ current.peer = 0 /\ current.preview = 0
    <3>1. todo' = <<>>
      BY <1>1, <2>1, PlanSteps, Zenon
    <3> QED  BY <2>1, <3>1
  <2>2. CASE todo = <<"new peer", "answer">> /\ current.peer = 0 /\ current.preview = 0
    <3>1. todo' = <<"answer">>
      BY <1>1, <2>2, PlanSteps, Zenon
    <3> QED  BY <2>2, <3>1
  <2>3. CASE \/ todo \in {<<>>, <<"peer">>, <<"preview", "peer">>, <<"answer">>}
             \/ todo \in {<<"peer", "preview", "new preview">>, <<"preview", "new preview">>}
             \/ todo \in {<<"preview", "peer", "new peer", "answer">>, <<"peer", "new peer", "answer">>}
    BY <1>1, <2>3, PlanSteps, Zenon
  <2> QED  BY <2>1, <2>2, <2>3, Zenon DEF PlanKept
<1> QED  BY <1>2

LEMMA StartsKeepScreens ==
  ASSUME ScreensInv, ConnStarts
  PROVE  ScreensInv'
<1> USE DEF ScreensInv
<1>1. PICK k \in {"peer", "preview"}, n \in Nat \ {0} :
        /\ screens' = Append(screens, k) /\ current' = [current EXCEPT ![k] = n]
        /\ unclosed' = unclosed \cup {n} /\ takenOff' = takenOff
  <2>1. Len(screens) + 1 \in Nat \ {0}
    BY DEF ScreenTypes
  <2> QED  BY <2>1 DEF ConnStarts
<1>3. current.peer = 0 /\ current.preview = 0 /\ todo' \in {<<>>, <<"answer">>}
  BY StartsMeetsEmpty
<1>4. PlanKept'
  BY <1>3, Zenon DEF PlanKept
<1>5. screens' \in Seq({"peer", "preview"})
  BY <1>1 DEF ScreenTypes
<1>6. /\ current' \in [{"peer", "preview"} -> Nat] /\ n \in {current'.peer, current'.preview}
      /\ current'.peer = 0 \/ current'.preview = 0
  BY <1>1, <1>3 DEF ScreenTypes
<1>7. ScreenTypes' /\ ScreensOwned'
  BY <1>1, <1>3, <1>5, <1>6 DEF ScreenTypes, ScreensOwned
<1> QED  BY <1>4, <1>6, <1>7 DEF WatchedOneWay

\* A plan is made, or given up.
LEMMA PlansKeepScreens ==
  ASSUME ScreensInv, AdbAction \/ OfferFails \/ ConnAnswers
  PROVE  ScreensInv'
<1> USE DEF ScreensInv
<1>1. PlanKept'
  BY Zenon DEF AdbAction, AdbActions, OfferFails, ConnAnswers, PlanKept
<1>2. UNCHANGED <<screens, current, unclosed, takenOff>>
  BY DEF AdbAction, OfferFails, ConnAnswers
<1> QED  BY <1>1, <1>2 DEF ScreenTypes, ScreensOwned, WatchedOneWay

\* Callbacks and goroutines take off what is current, or change none of this.
LEMMA OthersKeepScreens ==
  ASSUME ScreensInv, NEW n \in Screens,
         \/ Closes(n) \/ PeerConnects(n) \/ \E s \in {"failed", "closed"} : PeerEnds(n, s)
         \/ VideoChecks(n) \/ VideoBegins(n) \/ VideoEnds(n) \/ VideoClears(n) \/ VideoStops(n)
         \/ PreviewFails(n) \/ PreviewStops(n)
  PROVE  ScreensInv'
<1>1. CASE Closes(n)
  BY <1>1 DEF Closes, ScreensInv, ScreenTypes, PlanKept, ScreensOwned, WatchedOneWay
<1>2. CASE (\E s \in {"failed", "closed"} : PeerEnds(n, s)) \/ VideoStops(n) \/ PreviewStops(n)
  <2>1. /\ TakesOff("peer") \/ TakesOff("preview")
        /\ UNCHANGED <<screens, unclosed, todo>>
    BY <1>2 DEF PeerEnds, VideoStops, PreviewStops
  <2> QED  BY <2>1, TakesOffKeepsScreens
<1>3. CASE \/ PeerConnects(n) \/ VideoChecks(n) \/ VideoBegins(n) \/ VideoEnds(n) \/ VideoClears(n)
           \/ PreviewFails(n)
  <2>1. UNCHANGED <<screens, current, unclosed, takenOff, todo>>
    BY <1>3 DEF PeerConnects, VideoChecks, VideoBegins, VideoEnds, VideoClears, PreviewFails
  <2> QED  BY <2>1 DEF ScreensInv, ScreenTypes, PlanKept, ScreensOwned, WatchedOneWay
<1> QED  BY <1>1, <1>2, <1>3

LEMMA ScreensGoOn == ScreensInv /\ [AdbNext]_adbVars => ScreensInv'
<1> SUFFICES ASSUME ScreensInv, [AdbNext]_adbVars PROVE ScreensInv'
  OBVIOUS
<1>1. CASE UNCHANGED adbVars \/ KeyframeRequested
  <2>1. UNCHANGED <<screens, current, unclosed, takenOff, todo>>
    BY <1>1 DEF adbVars, KeyframeRequested
  <2> QED  BY <2>1 DEF ScreensInv, ScreenTypes, PlanKept, ScreensOwned, WatchedOneWay
<1>2. CASE AdbAction \/ ConnStops \/ ConnStarts \/ OfferFails \/ ConnAnswers
  BY <1>2, PlansKeepScreens, StopsKeepScreens, StartsKeepScreens
<1>3. ASSUME NEW n \in Screens,
             \/ Closes(n) \/ PeerConnects(n) \/ \E s \in {"failed", "closed"} : PeerEnds(n, s)
             \/ VideoChecks(n) \/ VideoBegins(n) \/ VideoEnds(n) \/ VideoClears(n) \/ VideoStops(n)
             \/ PreviewFails(n) \/ PreviewStops(n)
      PROVE  ScreensInv'
  BY <1>3, OthersKeepScreens
<1> QED  BY <1>1, <1>2, <1>3 DEF AdbNext

\* Whoever calls Stop and stopADBStream, stale callbacks included, nothing goes
\* on recording that nobody has in hand, and never in both ways.
THEOREM RecordedScreenOwned == AdbSpec => []ScreenHasOneOwner
<1>1. ScreensInv => ScreenHasOneOwner
  BY DEF ScreensInv, ScreensOwned, WatchedOneWay, ScreenHasOneOwner
<1> QED  BY <1>1, ScreensBegin, ScreensGoOn, PTL DEF AdbSpec

-----------------------------------------------------------------------------
(* Keyframes.                                                              *)

VideoStates ==
  {"none", "capture", "check", "begin", "stream", "over", "broken", "unstarted", "stop", "done"}

Chores == {"peer", "preview", "new peer", "new preview", "answer"}

\* Until a plan has come to its answer there is room for the peer it makes.
PlanRoom ==
  /\ todo \in Seq(Chores)
  /\ (todo # <<>> /\ todo[Len(todo)] = "answer" /\ Head(todo) # "answer") => Len(screens) < MaxScreens

KeyframeInv == ScreensInv /\ video \in [Screens -> VideoStates] /\ PlanRoom /\ KeyframeReachesStream

LEMMA InitKeyframe == AdbInit => KeyframeInv
<1>1. AdbInit => video \in [Screens -> VideoStates]
  BY DEF AdbInit, VideoStates
<1>2. AdbInit => PlanRoom
  BY DEF AdbInit, PlanRoom
<1>3. AdbInit => KeyframeReachesStream
  BY DEF AdbInit, KeyframeReachesStream
<1> QED  BY <1>1, <1>2, <1>3, ScreensBegin DEF KeyframeInv

\* A peer's goroutine changes only its own place.
LEMMA VideoMoves ==
  ASSUME video \in [Screens -> VideoStates], NEW n \in Screens, NEW v \in VideoStates,
         video' = [video EXCEPT ![n] = v]
  PROVE  /\ video' \in [Screens -> VideoStates]
         /\ video'[n] = v
         /\ \A p \in Screens : p # n => video'[p] = video[p]
OBVIOUS

LEMMA TuplesAreSeqs ==
  ASSUME NEW S, NEW a \in S, NEW b \in S, NEW c \in S, NEW d \in S
  PROVE  /\ <<a>> \in Seq(S) /\ <<a, b>> \in Seq(S)
         /\ <<a, b, c>> \in Seq(S) /\ <<a, b, c, d>> \in Seq(S)
<1>1. ASSUME NEW s \in Seq(S), NEW x \in S PROVE Append(s, x) \in Seq(S)
  BY AppendProperties
<1>2. <<>> \in Seq(S)
  OBVIOUS
<1>3. <<a>> = Append(<<>>, a)
  OBVIOUS
<1>4. <<a, b>> = Append(<<a>>, b)
  OBVIOUS
<1>5. <<a, b, c>> = Append(<<a, b>>, c)
  OBVIOUS
<1>6. <<a, b, c, d>> = Append(<<a, b, c>>, d)
  OBVIOUS
<1>7. <<a>> \in Seq(S)
  BY <1>1, <1>2, <1>3
<1>8. <<a, b>> \in Seq(S)
  BY <1>1, <1>4, <1>7
<1>9. <<a, b, c>> \in Seq(S)
  BY <1>1, <1>5, <1>8
<1>10. <<a, b, c, d>> \in Seq(S)
  BY <1>1, <1>6, <1>9
<1> QED  BY <1>7, <1>8, <1>9, <1>10

LEMMA PlansAreSeqs == AdbActions \subseteq Seq(Chores)
<1>1. /\ "peer" \in Chores /\ "preview" \in Chores /\ "new preview" \in Chores
      /\ "new peer" \in Chores /\ "answer" \in Chores
  BY DEF Chores
<1>2. /\ <<"peer">> \in Seq(Chores) /\ <<"preview", "peer">> \in Seq(Chores)
  BY <1>1, TuplesAreSeqs, Zenon
<1>3. <<"peer", "preview", "new preview">> \in Seq(Chores)
  BY <1>1, TuplesAreSeqs, Zenon
<1>4. <<"preview", "peer", "new peer", "answer">> \in Seq(Chores)
  BY <1>1, TuplesAreSeqs, Zenon
<1> QED  BY <1>2, <1>3, <1>4, Zenon DEF AdbActions

\* A plan of one step, or none, leaves no peer to be made.
LEMMA ShortPlans ==
  ASSUME NEW r \in Chores, todo' = <<>> \/ todo' = <<r>>
  PROVE  PlanRoom'
<1>1. CASE todo' = <<>>
  BY <1>1 DEF PlanRoom
<1>2. CASE todo' = <<r>>
  <2>1. todo' \in Seq(Chores)
    BY <1>2, TuplesAreSeqs, Zenon
  <2>2. Len(todo') = 1 /\ Head(todo') = r /\ todo'[1] = r
    BY <1>2
  <2> QED  BY <2>1, <2>2 DEF PlanRoom
<1> QED  BY <1>1, <1>2

\* Where the room for a peer comes from, and that nothing takes it away.
LEMMA RoomIsKept ==
  ASSUME KeyframeInv, [AdbNext]_adbVars
  PROVE  PlanRoom'
<1> USE DEF KeyframeInv
<1>1. CASE AdbAction
  <2>1. screens' = screens /\ todo' \in AdbActions
        /\ (todo'[Len(todo')] \in {"answer", "new preview"} => Len(screens) < MaxScreens)
    BY <1>1 DEF AdbAction
  <2>2. AdbActions \subseteq Seq(Chores)
    BY PlansAreSeqs, Zenon DEF AdbActions
  <2> QED  BY <2>1, <2>2 DEF PlanRoom
<1>2. CASE ConnStops
  <2>1. screens' = screens /\ todo' = Tail(todo) /\ todo # <<>> /\ Head(todo) # "answer"
    BY <1>2 DEF ConnStops
  <2>2. todo' \in Seq(Chores) /\ (todo' # <<>> => todo'[Len(todo')] = todo[Len(todo)])
    BY <2>1 DEF PlanRoom
  <2> QED  BY <2>1, <2>2 DEF PlanRoom
<1>3. CASE ConnStarts
  <2>1. todo' = <<>> \/ todo' = <<"answer">>
    BY <1>3, StartsMeetsEmpty, Zenon
  <2>2. "answer" \in Chores
    BY DEF Chores
  <2> QED  BY <2>1, <2>2, ShortPlans
<1>4. CASE OfferFails \/ ConnAnswers
  <2>1. todo' = <<>> \/ todo' = <<"peer">>
    BY <1>4, Zenon DEF OfferFails, ConnAnswers
  <2>2. "peer" \in Chores
    BY DEF Chores
  <2> QED  BY <2>1, <2>2, ShortPlans
<1>5. CASE UNCHANGED adbVars \/ KeyframeRequested
  <2>1. UNCHANGED <<screens, todo>>
    BY <1>5 DEF adbVars, KeyframeRequested
  <2> QED  BY <2>1 DEF PlanRoom
<1>6. ASSUME NEW n \in Screens,
             \/ Closes(n) \/ PeerConnects(n) \/ \E s \in {"failed", "closed"} : PeerEnds(n, s)
             \/ VideoChecks(n) \/ VideoBegins(n) \/ VideoEnds(n) \/ VideoClears(n) \/ VideoStops(n)
             \/ PreviewFails(n) \/ PreviewStops(n)
      PROVE  PlanRoom'
  <2>1. UNCHANGED <<screens, todo>>
    BY <1>6 DEF Closes, PeerConnects, PeerEnds, VideoChecks, VideoBegins, VideoEnds, VideoClears,
                VideoStops, PreviewFails, PreviewStops
  <2> QED  BY <2>1 DEF PlanRoom
<1> QED  BY <1>1, <1>2, <1>3, <1>4, <1>5, <1>6 DEF AdbNext

\* A new peer has no goroutine yet; while there is a preview there is no peer.
LEMMA StartsKeepKeyframe ==
  ASSUME KeyframeInv, ConnStarts, ScreensInv'
  PROVE  video' \in [Screens -> VideoStates] /\ KeyframeReachesStream'
<1> USE DEF KeyframeInv
<1>1. PICK k \in {"peer", "preview"} :
        /\ k = IF Head(todo) = "new peer" THEN "peer" ELSE "preview"
        /\ current' = [current EXCEPT ![k] = Len(screens) + 1]
        /\ video' = [video EXCEPT ![Len(screens) + 1] = IF k = "preview" THEN "capture" ELSE "none"]
  BY DEF ConnStarts
<1>2. todo # <<>> /\ Head(todo) \in {"new peer", "new preview"}
  BY DEF ConnStarts
<1>3. video' \in [Screens -> VideoStates]
  BY <1>1 DEF VideoStates
<1>4. CASE k = "preview"
  <2>1. current'.peer = current.peer
    BY <1>1, <1>4 DEF ScreensInv, ScreenTypes
  <2>2. current'.peer = 0
    BY <2>1, StartsMeetsEmpty
  <2> QED  BY <1>3, <2>2 DEF KeyframeReachesStream
<1>5. CASE k = "peer"
  <2>1. Head(todo) = "new peer"
    BY <1>1, <1>5, <1>2
  <2>2. todo = <<"new peer", "answer">>
    BY <1>2, <2>1, PlanSteps, Zenon DEF ScreensInv, PlanKept
  <2>3. Len(screens) < MaxScreens
    BY <2>1, <2>2 DEF PlanRoom
  <2>4. Len(screens) + 1 \in Screens
    BY <2>3, AdbAssumption DEF Screens, ScreensInv, ScreenTypes
  <2>5. current'.peer = Len(screens) + 1
    BY <1>1, <1>5 DEF ScreensInv, ScreenTypes
  <2>6. video'[Len(screens) + 1] = "none"
    BY <1>1, <1>5, <2>4
  <2> QED  BY <1>3, <2>5, <2>6 DEF KeyframeReachesStream
<1> QED  BY <1>4, <1>5

\* The goroutines of the screens.
LEMMA VideoKeepsKeyframe ==
  ASSUME KeyframeInv, NEW n \in Screens,
         \/ PeerConnects(n) \/ VideoChecks(n) \/ VideoEnds(n) \/ PreviewFails(n)
         \/ VideoBegins(n) \/ VideoClears(n) \/ VideoStops(n) \/ PreviewStops(n)
  PROVE  video' \in [Screens -> VideoStates] /\ KeyframeReachesStream'
<1> USE DEF KeyframeInv
<1>1. CASE PeerConnects(n) \/ VideoChecks(n) \/ VideoEnds(n) \/ PreviewFails(n)
  <2>1. PICK v \in VideoStates : v # "stream" /\ video' = [video EXCEPT ![n] = v]
    BY <1>1 DEF PeerConnects, VideoChecks, VideoEnds, PreviewFails, VideoStates
  <2>2. UNCHANGED <<current, latecomer, streamCancel>>
    BY <1>1 DEF PeerConnects, VideoChecks, VideoEnds, PreviewFails
  <2> QED  BY <2>1, <2>2 DEF KeyframeReachesStream
<1>2. CASE VideoBegins(n)
  BY <1>2 DEF VideoBegins, VideoStates, KeyframeReachesStream
<1>3. CASE VideoClears(n)
  <2>1. PICK v \in {"check", "stop", "done"} : video' = [video EXCEPT ![n] = v]
    BY <1>3 DEF VideoClears
  <2>2. current' = current /\ video[n] # "stream"
    BY <1>3 DEF VideoClears
  <2>3. video' \in [Screens -> VideoStates]
    BY <2>1 DEF VideoStates
  <2>4. CASE streamToken = tokenOf[n]
    <3>1. latecomer' <=> latecomer \/ streamCancel \notin {0, n}
      BY <1>3, <2>4 DEF VideoClears
    <3>2. SUFFICES ASSUME current.peer # 0, video'[current.peer] = "stream", ~latecomer' PROVE FALSE
      BY <2>2, <2>3 DEF KeyframeReachesStream
    <3>3. current.peer # n /\ video[current.peer] = "stream"
      BY <2>1, <2>2, <3>2
    <3>4. streamCancel = current.peer
      BY <3>1, <3>2, <3>3 DEF KeyframeReachesStream
    <3> QED  BY <3>1, <3>2, <3>3, <3>4
  <2>5. CASE streamToken # tokenOf[n]
    <3>1. streamCancel' = streamCancel /\ (latecomer' <=> latecomer)
      BY <1>3, <2>5 DEF VideoClears, ClearStreamCancel
    <3> QED  BY <2>1, <2>2, <2>3, <3>1 DEF KeyframeReachesStream
  <2> QED  BY <2>4, <2>5
<1>4. CASE VideoStops(n)
  <2>1. current'.peer = 0
    BY <1>4 DEF VideoStops, TakesOff, ScreensInv, ScreenTypes
  <2> QED  BY <1>4, <2>1 DEF VideoStops, VideoStates, KeyframeReachesStream
<1>5. CASE PreviewStops(n)
  <2>1. current'.peer = current.peer /\ UNCHANGED <<streamCancel, latecomer>>
    BY <1>5 DEF PreviewStops, TakesOff, ScreensInv, ScreenTypes
  <2>2. video' = [video EXCEPT ![n] = "done"] /\ video[n] # "stream"
    BY <1>5 DEF PreviewStops
  <2> QED  BY <2>1, <2>2 DEF VideoStates, KeyframeReachesStream
<1> QED  BY <1>1, <1>2, <1>3, <1>4, <1>5

\* The connection's goroutine and the callbacks of a peer.
LEMMA OthersKeepKeyframe ==
  ASSUME KeyframeInv,
         \/ AdbAction \/ ConnStops \/ OfferFails \/ ConnAnswers \/ KeyframeRequested \/ UNCHANGED adbVars
         \/ \E n \in Screens : Closes(n) \/ \E s \in {"failed", "closed"} : PeerEnds(n, s)
  PROVE  video' \in [Screens -> VideoStates] /\ KeyframeReachesStream'
<1> USE DEF KeyframeInv
<1>1. CASE \/ AdbAction \/ OfferFails \/ ConnAnswers \/ UNCHANGED adbVars \/ \E n \in Screens : Closes(n)
  <2>1. UNCHANGED <<current, latecomer, streamCancel, video>>
    BY <1>1 DEF AdbAction, OfferFails, ConnAnswers, adbVars, Closes
  <2> QED  BY <2>1 DEF KeyframeReachesStream
<1>2. CASE KeyframeRequested
  <2>1. UNCHANGED <<current, latecomer, streamCancel>> /\ video' = [video EXCEPT ![streamCancel] = "over"]
    BY <1>2 DEF KeyframeRequested
  <2>2. video' \in [Screens -> VideoStates]
    BY <2>1 DEF VideoStates
  <2>3. ASSUME NEW p, p # streamCancel, video'[p] = "stream" PROVE video[p] = "stream"
    BY <2>1, <2>3
  <2> QED  BY <2>1, <2>2, <2>3 DEF KeyframeReachesStream
<1>3. CASE ConnStops \/ \E n \in Screens, s \in {"failed", "closed"} : PeerEnds(n, s)
  <2>1. UNCHANGED <<latecomer, video>> /\ (TakesOff("peer") \/ TakesOff("preview"))
    BY <1>3 DEF ConnStops, PeerEnds
  <2>2. TakesOff("peer") => current'.peer = 0
    BY DEF TakesOff, ScreensInv, ScreenTypes
  <2>3. TakesOff("preview") => current'.peer = current.peer /\ streamCancel' = streamCancel
    BY DEF TakesOff, ScreensInv, ScreenTypes
  <2> QED  BY <2>1, <2>2, <2>3 DEF KeyframeReachesStream
<1> QED  BY <1>1, <1>2, <1>3

LEMMA NextKeyframe == KeyframeInv /\ [AdbNext]_adbVars => KeyframeInv'
<1> SUFFICES ASSUME KeyframeInv, [AdbNext]_adbVars PROVE KeyframeInv'
  OBVIOUS
<1>1. ScreensInv'
  BY ScreensGoOn DEF KeyframeInv
<1>2. PlanRoom'
  BY RoomIsKept
<1>3. video' \in [Screens -> VideoStates] /\ KeyframeReachesStream'
  BY <1>1, StartsKeepKeyframe, VideoKeepsKeyframe, OthersKeepKeyframe DEF AdbNext
<1> QED  BY <1>1, <1>2, <1>3 DEF KeyframeInv

\* requestKeyframe restarts the stream of the current peer, with any number of
\* goroutines of earlier peers that clear the field by their tokens.
THEOREM KeyframeRestartsStream == AdbSpec => []KeyframeReachesStream
<1>1. KeyframeInv => KeyframeReachesStream
  BY DEF KeyframeInv
<1> QED  BY <1>1, InitKeyframe, NextKeyframe, PTL DEF AdbSpec

-----------------------------------------------------------------------------
(* The connection to codex leaves no call behind and loses no request for   *)
(* approval, for any goroutines that send and decide and any number of calls*)
(* and requests.                                                            *)

\* s has registered a call and has not seen its end.
Calling(s) == at[s] \in {"write", "wait"}

\* What is registered, who waits for it and what the channels hold.
CallTypeOK ==
  /\ called \in 0 .. MaxCalls
  /\ pending \in SUBSET (1 .. called)
  /\ reply \in [Calls -> {"none", "ok", "error"}]
  /\ at \in [Senders -> {"idle", "call", "write", "wait"}]
  /\ id \in [Senders -> 0 .. called]

\* No two senders wait for the same call: who takes its own out of pending
\* takes no other's.
CallsApart ==
  \A s, t \in Senders : Calling(s) /\ Calling(t) /\ id[s] = id[t] => s = t

\* A call under way is registered until its channel has something: from its
\* registration on, before the request is written.
CallKept ==
  \A s \in Senders : Calling(s) => id[s] # 0 /\ (id[s] \in pending \/ reply[id[s]] # "none")

\* Once the loop has ended, new calls are refused and the others were failed.
EndFailsCalls ==
  reader = "ended" =>
    /\ readErr /\ server = "dead"
    /\ \A s \in Senders : Calling(s) => reply[id[s]] # "none"

\* The inductive invariant.
CallsInv == CallTypeOK /\ CallsApart /\ CallKept /\ EndFailsCalls /\ NewestApprovalPending

LEMMA CallsBegin == CodexInit => CallsInv
  BY CodexAssumption DEF CodexInit, CallsInv, CallTypeOK, CallsApart, CallKept, EndFailsCalls,
     NewestApprovalPending, Calling, Calls

\* A call that is registered has an id of its own; after the end it is refused.
LEMMA RegisterKeepsCalls ==
  ASSUME CallsInv, NEW s \in Senders, ~Calling(s), NEW m, Register(s, m),
         UNCHANGED <<readErr, reply, reader, server, approvalVars>>
  PROVE  CallsInv'
<1> USE CodexAssumption DEF Register, CallsInv, Calls, Calling
<1>1. CallTypeOK'
  <2>1. called \in Nat /\ called' = called + 1 /\ called' \in 0 .. MaxCalls
    BY DEF CallTypeOK
  <2>2. 1 .. called' = (1 .. called) \cup {called'} /\ 0 .. called' = (0 .. called) \cup {called'}
    BY <2>1
  <2>3. pending' \in SUBSET (1 .. called')
    BY <2>1, <2>2 DEF CallTypeOK
  <2>4. at' \in [Senders -> {"idle", "call", "write", "wait"}]
    BY DEF CallTypeOK
  <2>5. id' \in [Senders -> 0 .. called']
    BY <2>1, <2>2 DEF CallTypeOK
  <2> QED  BY <2>1, <2>3, <2>4, <2>5 DEF CallTypeOK
<1>2. \A t \in Senders : t # s => at'[t] = at[t] /\ id'[t] = id[t]
  BY DEF CallTypeOK
<1>3. CASE readErr
  <2>1. ~Calling(s)'
    BY <1>3 DEF CallTypeOK
  <2> QED  BY <1>1, <1>2, <1>3, <2>1 DEF CallTypeOK, CallsApart, CallKept, EndFailsCalls,
               NewestApprovalPending, approvalVars
<1>4. CASE ~readErr
  <2>1. id'[s] = called + 1 /\ called' = called + 1 /\ called' \in pending'
    BY <1>4 DEF CallTypeOK
  <2>2. \A t \in Senders : id[t] # called + 1
    BY DEF CallTypeOK
  <2>3. CallsApart'
    BY <1>2, <2>1, <2>2 DEF CallsApart
  <2>4. CallKept'
    BY <1>2, <2>1 DEF CallKept, CallTypeOK
  <2> QED  BY <1>1, <1>4, <2>3, <2>4 DEF EndFailsCalls, NewestApprovalPending, approvalVars
<1> QED  BY <1>3, <1>4

\* A call that is over, with or without its entry, is nobody else's.
LEMMA EndKeepsCalls ==
  ASSUME CallsInv, NEW s \in Senders, Calling(s),
         at' \in [Senders -> {"idle", "call", "write", "wait"}],
         id' = [id EXCEPT ![s] = 0], ~Calling(s)',
         \A t \in Senders : t # s => at'[t] = at[t],
         pending' \in {pending, pending \ {id[s]}},
         server' \in {server, "dead"},
         UNCHANGED <<called, readErr, reply, reader, approvalVars>>
  PROVE  CallsInv'
<1> USE DEF CallsInv, Calls, Calling
<1>1. CallTypeOK'
  BY DEF CallTypeOK
<1>2. \A t \in Senders : Calling(t)' => t # s /\ Calling(t) /\ id'[t] = id[t]
  BY DEF CallTypeOK
<1>3. CallKept'
  <2> SUFFICES ASSUME NEW t \in Senders, Calling(t)'
               PROVE  id'[t] # 0 /\ (id'[t] \in pending' \/ reply'[id'[t]] # "none")
    BY DEF CallKept
  <2>1. id[t] # id[s]
    BY <1>2 DEF CallsApart
  <2> QED  BY <1>2, <2>1 DEF CallKept
<1>4. CallsApart' /\ EndFailsCalls'
  BY <1>2 DEF CallsApart, EndFailsCalls
<1> QED  BY <1>1, <1>3, <1>4 DEF NewestApprovalPending, approvalVars

\* What the senders do.
LEMMA SendersKeepCalls ==
  ASSUME CallsInv, NEW s \in Senders,
         StartApp(s) \/ SendUserInput(s) \/ StartCalls(s) \/ WriteCall(s) \/ CallCancelled(s) \/ CallReturns(s)
  PROVE  CallsInv'
<1>1. CASE StartApp(s)
  BY <1>1 DEF StartApp, CallsInv, CallTypeOK, CallsApart, CallKept, EndFailsCalls,
              NewestApprovalPending, Calling, approvalVars
<1>2. CASE SendUserInput(s)
  BY <1>2, RegisterKeepsCalls DEF SendUserInput, Calling, serverVars
<1>3. CASE StartCalls(s)
  BY <1>3, RegisterKeepsCalls DEF StartCalls, Calling, serverVars
<1>4. CASE WriteCall(s)
  <2>1. CASE server = "up"
    BY <1>4, <2>1 DEF WriteCall, CallsInv, CallTypeOK, CallsApart, CallKept, EndFailsCalls,
                      NewestApprovalPending, Calling, approvalVars
  <2>2. CASE server # "up"
    BY <1>4, <2>2, EndKeepsCalls DEF WriteCall, Fails, Calling, CallsInv, CallTypeOK
  <2> QED  BY <2>1, <2>2
<1>5. CASE CallCancelled(s)
  BY <1>5, EndKeepsCalls DEF CallCancelled, Fails, Calling, CallsInv, CallTypeOK
<1>6. CASE CallReturns(s)
  BY <1>6, EndKeepsCalls DEF CallReturns, Fails, Calling, CallsInv, CallTypeOK
<1> QED  BY <1>1, <1>2, <1>3, <1>4, <1>5, <1>6

\* What fails all calls that are registered leaves none without an answer.
LEMMA FailPendingAnswers ==
  ASSUME CallsInv, FailPending, UNCHANGED <<called, at, id, approvalVars>>
  PROVE  /\ CallTypeOK' /\ CallsApart' /\ CallKept' /\ NewestApprovalPending'
         /\ \A s \in Senders : Calling(s)' => reply'[id'[s]] # "none"
<1> USE DEF CallsInv, FailPending, Calling, Calls
<1>1. CallTypeOK'
  BY DEF CallTypeOK
<1>2. \A n \in Calls : reply'[n] = IF n \in pending THEN "error" ELSE reply[n]
  OBVIOUS
<1>3. \A s \in Senders : Calling(s) => id[s] \in Calls
  BY CodexAssumption DEF CallKept, CallTypeOK
<1>4. \A s \in Senders : Calling(s)' => id'[s] # 0 /\ reply'[id'[s]] # "none"
  BY <1>2, <1>3 DEF CallKept
<1> QED  BY <1>1, <1>4 DEF CallsApart, CallKept, NewestApprovalPending, approvalVars

\* The read loop, and Close.
LEMMA ReaderKeepsCalls ==
  ASSUME CallsInv, ReadReply \/ ReadTurn \/ ReadApproval \/ ReaderEnds \/ CloseApp
  PROVE  CallsInv'
<1>1. CASE ReadReply
  <2> USE <1>1 DEF CallsInv, ReadReply, Message, Calls, Calling, approvalVars, serverVars
  <2>1. CallTypeOK'
    BY CodexAssumption DEF CallTypeOK
  <2>2. \A n : n \in pending \ pending' => n \in Calls /\ reply'[n] # "none"
    BY CodexAssumption DEF CallTypeOK
  <2>3. \A n \in Calls : reply[n] # "none" => reply'[n] # "none"
    BY CodexAssumption DEF CallTypeOK
  <2>4. \A s \in Senders : Calling(s) => id[s] \in Calls
    BY CodexAssumption DEF CallKept, CallTypeOK
  <2>5. CallKept' /\ CallsApart' /\ EndFailsCalls'
    BY <2>2, <2>3, <2>4 DEF CallKept, CallsApart, EndFailsCalls
  <2> QED  BY <2>1, <2>5 DEF NewestApprovalPending
<1>2. CASE ReadTurn
  BY <1>2 DEF ReadTurn, Message, CallsInv, CallTypeOK, CallsApart, CallKept, EndFailsCalls,
              NewestApprovalPending, Calling, callVars, serverVars, approvalVars
<1>3. CASE ReadApproval
  BY <1>3 DEF ReadApproval, Message, CallsInv, CallTypeOK, CallsApart, CallKept, EndFailsCalls,
              NewestApprovalPending, Calling, callVars, serverVars
<1>4. CASE ReaderEnds
  BY <1>4, FailPendingAnswers DEF ReaderEnds, FailPending, CallsInv, EndFailsCalls, Calling, serverVars
<1>5. CASE CloseApp
  BY <1>5, FailPendingAnswers DEF CloseApp, FailPending, CallsInv, EndFailsCalls, Calling
<1> QED  BY <1>1, <1>2, <1>3, <1>4, <1>5

\* Answers to requests: the slot that is cleared holds an answered request.
LEMMA DecidersKeepCalls ==
  ASSUME CallsInv, NEW d \in Deciders, DecideLook(d) \/ Respond(d) \/ ClearPendingApproval(d)
  PROVE  CallsInv'
<1>1. /\ UNCHANGED <<callVars, serverVars, reader, seen>>
      /\ answered \subseteq answered'
      /\ slot' = slot \/ (slot' = 0 /\ slot \in answered)
  BY DEF DecideLook, Respond, ClearPendingApproval
<1>2. NewestApprovalPending'
  BY <1>1 DEF CallsInv, NewestApprovalPending
<1> QED  BY <1>1, <1>2 DEF CallsInv, CallTypeOK, CallsApart, CallKept, EndFailsCalls, Calling,
             callVars, serverVars

\* The server.
LEMMA ServerKeepsCalls ==
  ASSUME CallsInv, (\E n \in Calls : ServerReplies(n)) \/ ServerCompletes \/ ServerAsks \/ ServerDies
  PROVE  CallsInv'
<1>1. /\ UNCHANGED <<callVars, approvalVars, reader>>
      /\ server' \in {server, "dead"}
  BY DEF ServerReplies, ServerCompletes, ServerAsks, ServerDies
<1> QED  BY <1>1 DEF CallsInv, CallTypeOK, CallsApart, CallKept, EndFailsCalls,
             NewestApprovalPending, Calling, callVars, approvalVars

LEMMA CallsGoOn == CallsInv /\ [CodexNext]_codexVars => CallsInv'
<1> SUFFICES ASSUME CallsInv, [CodexNext]_codexVars PROVE CallsInv'
  OBVIOUS
<1>1. CASE UNCHANGED codexVars
  BY <1>1 DEF codexVars, CallsInv, CallTypeOK, CallsApart, CallKept, EndFailsCalls,
              NewestApprovalPending, Calling, callVars, serverVars, approvalVars
<1>2. CASE CodexNext
  BY <1>2, SendersKeepCalls, ReaderKeepsCalls, DecidersKeepCalls, ServerKeepsCalls DEF CodexNext
<1> QED  BY <1>1, <1>2

LEMMA CodexInvariant == CodexSpec => []CallsInv
  BY CallsBegin, CallsGoOn, PTL DEF CodexSpec

\* The end of the server's output, whenever it comes, leaves no caller without
\* an answer: failPending and the check of readErr in call.
THEOREM EveryCallEnds == CodexSpec => []NoCallLeftBehind
<1>1. CallsInv => NoCallLeftBehind
  BY DEF CallsInv, EndFailsCalls, NoCallLeftBehind, Calling
<1> QED  BY <1>1, CodexInvariant, PTL

\* clearPendingApproval compares before it clears: the newest request can be
\* answered however late the answers to earlier ones are.
THEOREM NewestApprovalKept == CodexSpec => []NewestApprovalPending
<1>1. CallsInv => NewestApprovalPending
  BY DEF CallsInv
<1> QED  BY <1>1, CodexInvariant, PTL

-----------------------------------------------------------------------------
(* The status ball follows the command, for any messages and any number of  *)
(* events and commands.                                                     *)

States == {"IDLE", "THINKING", "WAIT_INPUT", "RUNNING_TOOL"}
EventKinds == {"state", "reply", "session", "diff", "prompt", "step", "line", "finished"}
Told == [kind : EventKinds, state : States \cup {"none"}]
Statuses == StepStatuses \cup {"none"}
Controllers ==
  [state : States, lastPromptMsg : Messages \cup {"none"}, lastStepMsg : Messages \cup {"none"},
   lastStepStatus : Statuses, resumable : BOOLEAN]
Hands ==
  [reader : Readers \cup {"run"}, stopped : BOOLEAN, event : Told, message : Messages \cup {"none"}, status : Statuses]

StatusTypes ==
  /\ ctl \in Controllers /\ sinkQueue \in Seq(Told) /\ direct \in Seq(Told) /\ hands \in Seq(Hands)
  /\ ball \in BOOLEAN /\ agentState \in States \cup {"none"}

\* What an event that is on its way says fits the controller.
Fits(e) ==
  /\ e.kind = "state" => Busy(e.state) = Busy(ctl.state)
  /\ e.kind = "prompt" => ~Busy(ctl.state)

Right(lit) == lit = Busy(ctl.state)

\* The ball will be right when q has been processed: it is now, or a status in q
\* makes it so, and nothing after that disturbs it.
Agrees(q) ==
  \E i \in 0 .. Len(q) :
    /\ i = 0 => Right(ball)
    /\ i > 0 => q[i].kind = "state" /\ Fits(q[i])
    /\ \A j \in i + 1 .. Len(q) : Fits(q[j])

\* The command is over, and the controller has yet to hear so.
StopPending == \E i \in DOMAIN direct : direct[i].kind = "finished"
EndPending == \E i \in DOMAIN hands : hands[i].event.kind = "finished"

\* What a hand carries will put things right: a status, now or when the controller
\* has heard the event; or the sink's queue is right as it is.
Carries(h) ==
  \/ h.event.kind = "finished"
  \/ h.event.kind = "state" /\ h.event.state = ctl.state
  \/ h.event.kind = "prompt" /\ Busy(ctl.state)
  \/ h.event.kind \notin {"finished", "state"} /\ Agrees(sinkQueue)

\* Only the end of a run outlives the runner, unless it was stopped.
HandsRun ==
  \A i \in DOMAIN hands :
    \/ hands[i].event.kind \in {"finished", "state"}
    \/ hands[i].reader \in Readers /\ (hands[i].stopped \/ running)

OneWayAtATime == ~crossed => (direct = <<>> \/ (sinkQueue = <<>> /\ hands = <<>>)) /\ Len(hands) <= 1
RunsWhenBusy == (~crossed /\ ~late) => (Busy(ctl.state) => running \/ StopPending \/ EndPending)
WillAgree ==
  (~crossed /\ ~late) =>
    IF hands = <<>>
      THEN /\ sinkQueue = <<>> => StopPending \/ Agrees(direct)
           /\ direct = <<>> => Agrees(sinkQueue)
      ELSE Carries(hands[1])
RestoredRuns ==
  (restored /\ Busy(agentState)) =>
    \/ running \/ sinkQueue # <<>> \/ direct # <<>>
    \/ \E i \in DOMAIN hands : hands[i].event.kind \in {"finished", "state"}

StatusInv == StatusTypes /\ HandsRun /\ OneWayAtATime /\ RunsWhenBusy /\ WillAgree /\ RestoredRuns

LEMMA NotBusy == ~Busy("IDLE") /\ ~Busy("WAIT_INPUT") /\ Busy("THINKING") /\ Busy("RUNNING_TOOL")
  BY DEF Busy

LEMMA BusyIs == \A s : Busy(s) \in BOOLEAN
  BY DEF Busy

LEMMA StateTold == \A s \in States : State(s) \in Told /\ State(s).kind = "state" /\ State(s).state = s
  BY DEF State, Told, EventKinds

LEMMA OtherTold == \A k \in EventKinds : Other(k) \in Told /\ Other(k).kind = k
  BY DEF Other, Told

LEMMA HandIs ==
  ASSUME NEW r \in Readers \cup {"run"}, NEW b \in BOOLEAN, NEW e \in Told, NEW m \in Messages \cup {"none"},
         NEW st \in Statuses
  PROVE  \E h \in Hands : h = Hand(r, b, e, m, st) /\ h.event = e /\ h.reader = r /\ h.stopped = b
<1>1. Hand(r, b, e, m, st) = [reader |-> r, stopped |-> b, event |-> e, message |-> m, status |-> st]
  BY DEF Hand
<1>2. Hand(r, b, e, m, st) \in Hands
  BY <1>1 DEF Hands
<1> QED  BY <1>1, <1>2

\* What a sequence is without its i-th element.
LEMMA RemoveIs ==
  ASSUME NEW S, NEW s \in Seq(S), NEW i \in DOMAIN s
  PROVE  /\ RemoveAt(s, i) \in Seq(S) /\ Len(RemoveAt(s, i)) = Len(s) - 1
         /\ \A j \in 1 .. i - 1 : RemoveAt(s, i)[j] = s[j]
         /\ \A j \in i .. Len(s) - 1 : RemoveAt(s, i)[j] = s[j + 1]
<1>1. i \in 1 .. Len(s) /\ Len(s) \in Nat
  OBVIOUS
<1>2. /\ SubSeq(s, 1, i - 1) \in Seq(S) /\ Len(SubSeq(s, 1, i - 1)) = i - 1
      /\ \A j \in 1 .. i - 1 : SubSeq(s, 1, i - 1)[j] = s[j]
  BY <1>1
<1>3. /\ SubSeq(s, i + 1, Len(s)) \in Seq(S) /\ Len(SubSeq(s, i + 1, Len(s))) = Len(s) - i
      /\ \A j \in 1 .. Len(s) - i : SubSeq(s, i + 1, Len(s))[j] = s[i + j]
  BY <1>1
<1>4. \A a, b \in Seq(S) : /\ a \o b \in Seq(S) /\ Len(a \o b) = Len(a) + Len(b)
                           /\ \A j \in 1 .. Len(a) : (a \o b)[j] = a[j]
                           /\ \A j \in 1 .. Len(b) : (a \o b)[Len(a) + j] = b[j]
  OBVIOUS
<1> DEFINE a == SubSeq(s, 1, i - 1)  b == SubSeq(s, i + 1, Len(s))
<1>5. RemoveAt(s, i) = a \o b
  BY DEF RemoveAt
<1> HIDE DEF a, b
<1>6. /\ a \in Seq(S) /\ Len(a) = i - 1 /\ \A j \in 1 .. i - 1 : a[j] = s[j]
      /\ b \in Seq(S) /\ Len(b) = Len(s) - i /\ \A j \in 1 .. Len(s) - i : b[j] = s[i + j]
  BY <1>2, <1>3 DEF a, b
<1>7. a \o b \in Seq(S) /\ Len(a \o b) = Len(s) - 1
  BY <1>1, <1>4, <1>6
<1>8. ASSUME NEW j \in 1 .. i - 1 PROVE (a \o b)[j] = s[j]
  BY <1>4, <1>6
<1>9. ASSUME NEW j \in i .. Len(s) - 1 PROVE (a \o b)[j] = s[j + 1]
  <2>1. PICK k \in 1 .. Len(s) - i : k = j - (i - 1)
    BY <1>1
  <2>2. Len(a) = i - 1 /\ Len(b) = Len(s) - i /\ i \in Int /\ j \in Int
    BY <1>1, <1>6
  <2>3. (i - 1) + k = j /\ i + k = j + 1
    BY <2>1, <2>2
  <2>4. (a \o b)[Len(a) + k] = b[k]
    <3>1. \A n \in 1 .. Len(b) : (a \o b)[Len(a) + n] = b[n]
      BY <1>4, <1>6
    <3>2. k \in 1 .. Len(b)
      BY <2>2
    <3> QED  BY <3>1, <3>2
  <2>5. b[k] = s[i + k]
    BY <1>6
  <2> QED  BY <2>2, <2>3, <2>4, <2>5
<1> QED  BY <1>5, <1>7, <1>8, <1>9

\* The others stay, and only they.
LEMMA RemoveKeeps ==
  ASSUME NEW S, NEW s \in Seq(S), NEW i \in DOMAIN s
  PROVE  /\ \A j \in DOMAIN s : j # i => \E k \in DOMAIN RemoveAt(s, i) : RemoveAt(s, i)[k] = s[j]
         /\ \A k \in DOMAIN RemoveAt(s, i) : \E j \in DOMAIN s : RemoveAt(s, i)[k] = s[j]
         /\ Len(s) = 1 => RemoveAt(s, i) = <<>>
<1>1. DOMAIN s = 1 .. Len(s) /\ Len(s) \in Nat /\ i \in 1 .. Len(s)
  OBVIOUS
<1>2. DOMAIN RemoveAt(s, i) = 1 .. Len(s) - 1 /\ RemoveAt(s, i) \in Seq(S) /\ Len(RemoveAt(s, i)) = Len(s) - 1
  <2>1. RemoveAt(s, i) \in Seq(S) /\ Len(RemoveAt(s, i)) = Len(s) - 1
    BY RemoveIs
  <2>2. \A t \in Seq(S) : DOMAIN t = 1 .. Len(t)
    OBVIOUS
  <2> QED  BY <2>1, <2>2
<1>3. ASSUME NEW j \in DOMAIN s, j # i PROVE \E k \in DOMAIN RemoveAt(s, i) : RemoveAt(s, i)[k] = s[j]
  <2>1. CASE j < i
    <3>1. j \in 1 .. i - 1 /\ j \in 1 .. Len(s) - 1
      BY <1>1, <1>3, <2>1
    <3> QED  BY <3>1, <1>2, RemoveIs
  <2>2. CASE j > i
    <3>1. j - 1 \in i .. Len(s) - 1 /\ j - 1 \in 1 .. Len(s) - 1 /\ (j - 1) + 1 = j
      BY <1>1, <1>3, <2>2
    <3> QED  BY <3>1, <1>2, RemoveIs
  <2> QED  BY <1>1, <1>3, <2>1, <2>2
<1>4. ASSUME NEW k \in DOMAIN RemoveAt(s, i) PROVE \E j \in DOMAIN s : RemoveAt(s, i)[k] = s[j]
  <2>1. CASE k < i
    <3>1. k \in 1 .. i - 1 /\ k \in DOMAIN s
      BY <1>1, <1>2, <1>4, <2>1
    <3> QED  BY <3>1, RemoveIs
  <2>2. CASE k >= i
    <3>1. k \in i .. Len(s) - 1 /\ k + 1 \in DOMAIN s
      BY <1>1, <1>2, <1>4, <2>2
    <3> QED  BY <3>1, RemoveIs
  <2> QED  BY <1>1, <1>2, <1>4, <2>1, <2>2
<1>5. Len(s) = 1 => RemoveAt(s, i) = <<>>
  BY <1>2
<1> QED  BY <1>3, <1>4, <1>5

LEMMA StatusInitOK == StatusInit => StatusInv
<1> SUFFICES ASSUME StatusInit PROVE StatusInv
  OBVIOUS
<1>1. /\ ctl = [state |-> "IDLE", lastPromptMsg |-> "none", lastStepMsg |-> "none", lastStepStatus |-> "none",
               resumable |-> FALSE]
      /\ sinkQueue = <<>> /\ direct = <<>> /\ hands = <<>> /\ ball = FALSE /\ agentState = "IDLE" /\ restored = FALSE
  BY DEF StatusInit
<1>2. StatusTypes /\ ctl.state = "IDLE"
  <2>1. ctl \in Controllers /\ ctl.state = "IDLE"
    BY <1>1 DEF Controllers, States, Statuses
  <2>2. sinkQueue \in Seq(Told) /\ direct \in Seq(Told) /\ hands \in Seq(Hands) /\ agentState \in States
    BY <1>1 DEF States
  <2>3. ball \in BOOLEAN
    BY <1>1
  <2> QED  BY <2>1, <2>2, <2>3 DEF StatusTypes
<1>3. Agrees(direct) /\ Agrees(sinkQueue)
  <2>1. ball = Busy(ctl.state)
    <3>1. Busy(ctl.state) = FALSE
      BY <1>2 DEF Busy
    <3> QED  BY <1>1, <3>1
  <2> QED  BY <1>1, <2>1 DEF Agrees, Right
<1>4. Len(hands) = 0 /\ DOMAIN hands = {}
  BY <1>1
<1> QED  BY <1>1, <1>2, <1>3, <1>4, NotBusy DEF StatusInv, HandsRun, OneWayAtATime, RunsWhenBusy, WillAgree, RestoredRuns

\* A queue whose last event is the controller's state.
LEMMA LastSays ==
  ASSUME NEW q \in Seq(Told), Len(q) > 0, q[Len(q)].kind = "state", q[Len(q)].state = ctl.state
  PROVE  Agrees(q)
  BY DEF Agrees, Fits

\* One more event that fits.
LEMMA OneMore ==
  ASSUME NEW q \in Seq(Told), NEW e \in Told, Agrees(q), Fits(e)
  PROVE  Agrees(Append(q, e))
<1>1. /\ Len(Append(q, e)) = Len(q) + 1 /\ Append(q, e)[Len(q) + 1] = e
      /\ \A j \in 1 .. Len(q) : Append(q, e)[j] = q[j]
  OBVIOUS
<1>2. PICK i \in 0 .. Len(q) :
        /\ i = 0 => Right(ball)
        /\ i > 0 => q[i].kind = "state" /\ Fits(q[i])
        /\ \A j \in i + 1 .. Len(q) : Fits(q[j])
  BY DEF Agrees
<1>3. \A j \in i + 1 .. Len(q) + 1 : Fits(Append(q, e)[j])
  BY <1>1, <1>2
<1> QED  BY <1>1, <1>2, <1>3 DEF Agrees

\* Execute and SendInput tell the client at once, and StopActive in two steps.
LEMMA TellsKeeps ==
  ASSUME StatusInv, ctl' \in Controllers, direct' \in Seq(Told), direct' # <<>>,
         UNCHANGED <<hands, sinkQueue, ball, agentState, restored>>, running => running',
         direct'[Len(direct')].kind = "state", direct'[Len(direct')].state = ctl'.state,
         \/ Met(sinkQueue, direct', hands)
         \/ direct # <<>> /\ UNCHANGED crossed,
         ~late' => (Busy(ctl'.state) => running')
  PROVE  StatusInv'
<1>1. StatusTypes'
  BY DEF StatusInv, StatusTypes
<1>2. OneWayAtATime'
  <2>1. ~crossed' => ~crossed /\ sinkQueue = <<>> /\ hands = <<>>
    BY DEF Met, StatusInv, OneWayAtATime
  <2> QED  BY <2>1 DEF OneWayAtATime, StatusInv
<1>3. WillAgree'
  <2>1. Len(direct') \in Nat /\ Len(direct') > 0
    OBVIOUS
  <2>2. Agrees(direct)'
    BY <2>1 DEF Agrees, Fits, Right
  <2>3. ~crossed' => hands' = <<>> /\ direct' # <<>>
    BY <1>2 DEF OneWayAtATime
  <2> QED  BY <2>2, <2>3 DEF WillAgree
<1>4. HandsRun' /\ RestoredRuns' /\ RunsWhenBusy'
  BY DEF StatusInv, HandsRun, RestoredRuns, RunsWhenBusy
<1> QED  BY <1>1, <1>2, <1>3, <1>4 DEF StatusInv

LEMMA ExecuteKeeps == ASSUME StatusInv, Execute PROVE StatusInv'
<1>1. PICK r \in BOOLEAN :
        /\ running' = TRUE
        /\ ctl' = [ctl EXCEPT !.state = "THINKING", !.resumable = r]
        /\ direct' = <<State("THINKING")>> /\ Met(sinkQueue, direct', hands)
        /\ UNCHANGED <<hands, sinkQueue, ball, agentState, restored>>
  BY DEF Execute
<1>2. ctl' \in Controllers /\ ctl'.state = "THINKING"
  BY <1>1 DEF StatusInv, StatusTypes, Controllers, States
<1>3. State("THINKING") \in Told /\ State("THINKING").kind = "state" /\ State("THINKING").state = "THINKING"
  BY StateTold DEF States
<1> QED  BY <1>1, <1>2, <1>3, TellsKeeps

LEMMA InputKeeps == ASSUME StatusInv, NEW k \in {"input", "allow", "deny"}, InputSent(k) PROVE StatusInv'
<1>1. PICK st \in {"WAIT_INPUT", "THINKING"} :
        /\ running /\ ctl' = [ctl EXCEPT !.state = st]
        /\ direct' = <<State(ctl'.state)>> /\ Met(sinkQueue, direct', hands)
        /\ UNCHANGED <<running, hands, sinkQueue, ball, agentState, restored>>
  BY DEF InputSent
<1>2. ctl' \in Controllers /\ ctl'.state = st /\ st \in States
  BY <1>1 DEF StatusInv, StatusTypes, Controllers, States
<1>3. State(st) \in Told /\ State(st).kind = "state" /\ State(st).state = st
  BY <1>2, StateTold
<1>4. direct' = <<State(st)>>
  BY <1>1, <1>2
<1> QED  BY <1>1, <1>2, <1>3, <1>4, TellsKeeps

\* OnCommandFinished leaves nothing busy.
LEMMA FinishedIs ==
  ASSUME ctl \in Controllers, NEW c, c = CommandFinished
  PROVE  c \in Controllers /\ ~Busy(c.state) /\ c.state \in States
<1>1. CASE ctl.state = "WAIT_INPUT"
  BY <1>1, NotBusy DEF CommandFinished, Controllers
<1>2. CASE ctl.state # "WAIT_INPUT"
  <2>1. c = [ctl EXCEPT !.state = "IDLE", !.lastPromptMsg = "none", !.lastStepMsg = "none",
                         !.lastStepStatus = "none"]
    BY <1>2 DEF CommandFinished
  <2>2. c \in Controllers /\ c.state = "IDLE"
    BY <2>1 DEF Controllers, States, Statuses
  <2> QED  BY <2>2, NotBusy DEF States
<1> QED  BY <1>1, <1>2

LEMMA StopFinishesKeeps == ASSUME StatusInv, StopFinishes PROVE StatusInv'
<1>1. /\ direct # <<>> /\ ctl' = CommandFinished /\ direct' = <<State(ctl'.state)>>
      /\ UNCHANGED <<running, hands, sinkQueue, ball, agentState, restored, crossed>>
  BY DEF StopFinishes
<1>2. ctl' \in Controllers /\ ~Busy(ctl'.state) /\ ctl'.state \in States
  BY <1>1, FinishedIs DEF StatusInv, StatusTypes
<1>3. PICK e \in Told : direct' = <<e>> /\ e.kind = "state" /\ e.state = ctl'.state
  BY <1>1, <1>2, StateTold
<1>4. direct' \in Seq(Told) /\ direct' # <<>> /\ direct'[Len(direct')] = e
  BY <1>3
<1> QED  BY <1>1, <1>2, <1>3, <1>4, TellsKeeps

\* The runner is let go: its hands are a stopped runner's from here on.
LEMMA StopKeeps == ASSUME StatusInv, StopActive PROVE StatusInv'
<1>1. /\ direct = <<>> /\ running' = FALSE /\ direct' = <<Other("session"), Other("finished")>>
      /\ hands' = [i \in DOMAIN hands |-> [hands[i] EXCEPT !.stopped = TRUE]]
      /\ Met(sinkQueue, direct', hands) /\ UNCHANGED <<ctl, sinkQueue, ball, agentState, restored, late>>
  BY DEF StopActive
<1>2. PICK e1 \in Told, e2 \in Told : direct' = <<e1, e2>> /\ e2.kind = "finished"
  BY <1>1, OtherTold DEF EventKinds
<1>3. direct' \in Seq(Told) /\ direct' # <<>> /\ 2 \in DOMAIN direct' /\ direct'[2].kind = "finished"
  BY <1>2
<1>4. hands \in Seq(Hands)
  BY DEF StatusInv, StatusTypes
<1>5. /\ DOMAIN hands' = DOMAIN hands
      /\ \A i \in DOMAIN hands : /\ hands'[i] \in Hands /\ hands'[i].stopped = TRUE
                                 /\ hands'[i].event = hands[i].event /\ hands'[i].reader = hands[i].reader
  <2>1. \A h \in Hands : /\ [h EXCEPT !.stopped = TRUE] \in Hands /\ [h EXCEPT !.stopped = TRUE].stopped = TRUE
                         /\ [h EXCEPT !.stopped = TRUE].event = h.event
                         /\ [h EXCEPT !.stopped = TRUE].reader = h.reader
    BY DEF Hands
  <2>2. \A i \in DOMAIN hands : hands[i] \in Hands
    BY <1>4
  <2> QED  BY <1>1, <2>1, <2>2
<1>6. hands' \in Seq(Hands) /\ Len(hands') = Len(hands)
  <2>1. hands' \in [1 .. Len(hands) -> Hands] /\ Len(hands) \in Nat
    BY <1>1, <1>4, <1>5
  <2> QED  BY <2>1
<1>7. StatusTypes'
  BY <1>1, <1>3, <1>6 DEF StatusInv, StatusTypes
<1>8. HandsRun'
  BY <1>5 DEF StatusInv, HandsRun
<1>9. ~crossed' => ~crossed /\ sinkQueue = <<>> /\ hands = <<>>
  BY <1>1, <1>3 DEF Met
<1>10. ~crossed' => hands' = <<>>
  BY <1>6, <1>9
<1>11. OneWayAtATime'
  BY <1>1, <1>9, <1>10 DEF OneWayAtATime
<1>12. StopPending'
  BY <1>3 DEF StopPending
<1>13. RunsWhenBusy' /\ RestoredRuns'
  BY <1>3, <1>12 DEF RunsWhenBusy, RestoredRuns
<1>14. WillAgree'
  BY <1>3, <1>10, <1>12 DEF WillAgree
<1> QED  BY <1>7, <1>8, <1>11, <1>13, <1>14 DEF StatusInv

\* One more hand, the only one if nothing has crossed.
LEMMA OneMoreHand ==
  ASSUME StatusInv, NEW h \in Hands, hands' = Append(hands, h)
  PROVE  /\ hands' \in Seq(Hands) /\ hands' # <<>> /\ Len(hands') = Len(hands) + 1
         /\ DOMAIN hands' = 1 .. Len(hands) + 1 /\ hands'[Len(hands) + 1] = h
         /\ \A i \in DOMAIN hands : i \in DOMAIN hands' /\ hands'[i] = hands[i]
         /\ \A i \in DOMAIN hands' : i \in DOMAIN hands \/ i = Len(hands) + 1
         /\ Len(hands') <= 1 => hands = <<>> /\ hands'[1] = h
  BY DEF StatusInv, StatusTypes

LEMMA EmitKeeps ==
  ASSUME StatusInv, NEW r \in Readers, NEW b \in BOOLEAN, RunnerEmits(r, b) PROVE StatusInv'
<1>1. PICK k \in {"reply", "session", "diff", "prompt", "step", "line"}, m \in Messages \cup {"none"}, st \in Statuses :
        /\ hands' = Append(hands, Hand(r, b, Other(k), m, st)) /\ sinkQueue' = Append(sinkQueue, Other(k))
        /\ Met(sinkQueue', direct, hands') /\ (b \/ running)
        /\ UNCHANGED <<running, ctl, direct, ball, agentState, restored, late>>
  BY DEF RunnerEmits, EmittedBy, Statuses
<1>2. PICK e \in Told : e = Other(k) /\ e.kind = k
  BY OtherTold DEF EventKinds
<1>3. PICK h \in Hands : h = Hand(r, b, e, m, st) /\ h.event = e /\ h.reader = r /\ h.stopped = b
  <2>1. r \in Readers \cup {"run"}
    OBVIOUS
  <2> QED  BY <2>1, HandIs
<1>4. /\ hands' = Append(hands, h) /\ sinkQueue' = Append(sinkQueue, e)
      /\ sinkQueue' \in Seq(Told) /\ sinkQueue' # <<>>
  BY <1>1, <1>2, <1>3 DEF StatusInv, StatusTypes
<1>5. StatusTypes'
  BY <1>1, <1>4, OneMoreHand DEF StatusInv, StatusTypes
<1>6. HandsRun'
  BY <1>1, <1>3, <1>4, OneMoreHand DEF StatusInv, HandsRun
<1>7. ~crossed' => ~crossed /\ direct = <<>> /\ Len(hands') <= 1
  <2>1. ~crossed' => ~crossed /\ direct = <<>> /\ ~(Len(hands') > 1)
    BY <1>1, <1>4, Zenon DEF Met
  <2>2. Len(hands') \in Nat
    BY <1>5 DEF StatusTypes
  <2> QED  BY <2>1, <2>2
<1>8. OneWayAtATime'
  BY <1>1, <1>7 DEF OneWayAtATime
<1>9. RunsWhenBusy' /\ RestoredRuns'
  BY <1>1, <1>4, <1>7, OneMoreHand DEF StatusInv, RunsWhenBusy, RestoredRuns, StopPending, EndPending
<1>10. WillAgree'
  <2> SUFFICES ASSUME ~crossed', ~late' PROVE Carries(hands[1])'
    BY <1>4, OneMoreHand DEF WillAgree
  <2>1. hands = <<>> /\ hands'[1] = h /\ direct = <<>> /\ ~crossed /\ ~late
    BY <1>1, <1>4, <1>7, OneMoreHand
  <2>2. Agrees(sinkQueue)
    BY <2>1 DEF StatusInv, WillAgree
  <2>3. CASE k = "prompt" /\ Busy(ctl.state)
    BY <1>1, <1>2, <1>3, <2>1, <2>3 DEF Carries
  <2>4. CASE ~(k = "prompt" /\ Busy(ctl.state))
    <3>1. Fits(e)
      BY <1>2, <2>4 DEF Fits
    <3>2. Agrees(sinkQueue')
      BY <1>4, <2>2, <3>1, OneMore DEF StatusInv, StatusTypes
    <3>3. Agrees(sinkQueue)'
      BY <1>1, <3>2 DEF Agrees, Fits, Right
    <3> QED  BY <1>2, <1>3, <2>1, <3>3 DEF Carries
  <2> QED  BY <2>3, <2>4
<1> QED  BY <1>5, <1>6, <1>8, <1>9, <1>10 DEF StatusInv

LEMMA EndKeepsStatus == ASSUME StatusInv, RunEnds PROVE StatusInv'
<1>1. /\ \A i \in DOMAIN hands : hands[i].stopped \/ hands[i].reader \notin Readers
      /\ hands' = Append(hands, Hand("run", FALSE, Other("finished"), "none", "none"))
      /\ Met(sinkQueue, direct, hands')
      /\ UNCHANGED <<ctl, sinkQueue, direct, ball, agentState, restored, late>>
  BY DEF RunEnds
<1>2. PICK e \in Told : e = Other("finished") /\ e.kind = "finished"
  BY OtherTold DEF EventKinds
<1>3. PICK h \in Hands : h = Hand("run", FALSE, e, "none", "none") /\ h.event = e
  <2>1. /\ "run" \in Readers \cup {"run"} /\ FALSE \in BOOLEAN
        /\ "none" \in Messages \cup {"none"} /\ "none" \in Statuses
    BY DEF Statuses
  <2>2. PICK r \in Readers \cup {"run"}, b \in BOOLEAN, n \in Messages \cup {"none"}, st \in Statuses :
          r = "run" /\ b = FALSE /\ n = "none" /\ st = "none"
    BY <2>1
  <2>3. PICK g \in Hands : g = Hand(r, b, e, n, st) /\ g.event = e
    BY HandIs
  <2> QED  BY <2>2, <2>3
<1>4. hands' = Append(hands, h)
  BY <1>1, <1>2, <1>3
<1>5. StatusTypes'
  BY <1>1, <1>4, OneMoreHand DEF StatusInv, StatusTypes
<1>6. HandsRun'
  BY <1>1, <1>2, <1>3, <1>4, OneMoreHand DEF StatusInv, HandsRun
<1>7. ~crossed' => ~crossed /\ direct = <<>> /\ Len(hands') <= 1
  <2>1. Len(hands') \in Nat /\ hands' # <<>>
    BY <1>4, <1>5, OneMoreHand DEF StatusTypes
  <2>2. ~crossed' => ~crossed /\ direct = <<>> /\ ~(Len(hands') > 1)
    BY <1>1, <2>1, Zenon DEF Met
  <2> QED  BY <2>1, <2>2
<1>8. OneWayAtATime'
  BY <1>1, <1>7 DEF OneWayAtATime
<1>9. \E i \in DOMAIN hands' : hands'[i].event.kind = "finished"
  <2>1. Len(hands) + 1 \in DOMAIN hands'
    <3>1. Len(hands) \in Nat
      BY DEF StatusInv, StatusTypes
    <3> QED  BY <1>4, <3>1, OneMoreHand
  <2>2. hands'[Len(hands) + 1] = h
    BY <1>4, OneMoreHand
  <2> QED  BY <1>2, <1>3, <2>1, <2>2
<1>10. RunsWhenBusy' /\ RestoredRuns'
  BY <1>9 DEF RunsWhenBusy, RestoredRuns, EndPending
<1>11. WillAgree'
  BY <1>2, <1>3, <1>4, <1>7, OneMoreHand DEF WillAgree, Carries
<1> QED  BY <1>5, <1>6, <1>8, <1>10, <1>11 DEF StatusInv

\* OnRunnerEvent: of what it says nothing, the state stays and the event fits it.
LEMMA HeardIs ==
  ASSUME ctl \in Controllers, NEW h \in Hands, h.event.kind # "state"
  PROVE  /\ Heard(h) \in Controllers
         /\ ~Tells(h) => /\ Heard(h).state = ctl.state /\ h.event.kind # "finished"
                         /\ h.event.kind = "prompt" => ~Busy(ctl.state)
         /\ h.event.kind = "finished" => ~Busy(Heard(h).state)
<1>1. h.message \in Messages \cup {"none"} /\ h.status \in Statuses /\ h.event.kind \in EventKinds
  BY DEF Hands, Told
<1>2. CASE h.event.kind = "reply"
  BY <1>2 DEF Heard
<1>3. CASE h.event.kind = "session"
  <2>1. Heard(h) = [ctl EXCEPT !.resumable = TRUE]
    BY <1>3 DEF Heard
  <2>2. Heard(h) \in Controllers /\ Heard(h).state = ctl.state
    BY <2>1 DEF Controllers
  <2> QED  BY <1>3, <2>2
<1>4. CASE h.event.kind = "diff"
  <2>1. Heard(h) = [ctl EXCEPT !.state = "RUNNING_TOOL"]
    BY <1>4 DEF Heard
  <2>2. Heard(h) \in Controllers
    BY <2>1 DEF Controllers, States
  <2> QED  BY <1>4, <2>2 DEF Tells
<1>5. CASE h.event.kind = "prompt"
  <2>1. Heard(h) = [ctl EXCEPT !.state = "WAIT_INPUT", !.lastPromptMsg = h.message]
    BY <1>5 DEF Heard
  <2>2. Heard(h) \in Controllers /\ Heard(h).state = "WAIT_INPUT"
    BY <1>1, <2>1 DEF Controllers, States
  <2>3. ~Tells(h) => ctl.state = "WAIT_INPUT"
    BY <1>5 DEF Tells, RepeatedPrompt
  <2> QED  BY <1>5, <2>2, <2>3, NotBusy
<1>6. CASE h.event.kind = "step"
  <2>1. CASE RepeatedStep(h)
    BY <1>6, <2>1 DEF Heard
  <2>2. CASE ~RepeatedStep(h)
    <3>1. PICK s \in {"RUNNING_TOOL", ctl.state} :
            /\ Heard(h) = [ctl EXCEPT !.lastStepMsg = h.message, !.lastStepStatus = h.status, !.state = s]
            /\ h.status = "done" => s = ctl.state
      BY <1>6, <2>2 DEF Heard, Controllers
    <3>2. s \in States
      BY DEF Controllers, States
    <3>3. Heard(h) \in Controllers /\ Heard(h).state = s
      BY <1>1, <3>1, <3>2 DEF Controllers
    <3>4. ~Tells(h) => h.status = "done"
      BY <1>6, <2>2 DEF Tells
    <3> QED  BY <1>6, <3>1, <3>3, <3>4
  <2> QED  BY <2>1, <2>2
<1>7. CASE h.event.kind = "line"
  <2>1. PICK s \in {"WAIT_INPUT", ctl.state} :
          /\ Heard(h) = [ctl EXCEPT !.state = s] /\ (ctl.state # "THINKING" => s = ctl.state)
    BY <1>7 DEF Heard, Controllers
  <2>2. s \in States
    BY DEF Controllers, States
  <2>3. Heard(h) \in Controllers /\ Heard(h).state = s
    BY <2>1, <2>2 DEF Controllers
  <2>4. ~Tells(h) => ctl.state # "THINKING"
    BY <1>7 DEF Tells
  <2> QED  BY <1>7, <2>1, <2>3, <2>4
<1>8. CASE h.event.kind = "finished"
  <2>1. Heard(h) = CommandFinished
    BY <1>8 DEF Heard
  <2>2. Heard(h) \in Controllers /\ ~Busy(Heard(h).state)
    BY <2>1, FinishedIs
  <2> QED  BY <1>8, <2>2 DEF Tells
<1> QED  BY <1>1, <1>2, <1>3, <1>4, <1>5, <1>6, <1>7, <1>8 DEF EventKinds

\* The controller hears a hand's event.
LEMMA HearsKeeps == ASSUME StatusInv, NEW i \in DOMAIN hands, ControllerHears(i) PROVE StatusInv'
<1> DEFINE h == hands[i]
<1>1. /\ h.event.kind # "state" /\ ctl' = Heard(h) /\ late' = (late \/ h.stopped)
      /\ hands' = IF Tells(h)
                    THEN [hands EXCEPT ![i] = Hand(@.reader, @.stopped, State(ctl'.state), "none", "none")]
                    ELSE RemoveAt(hands, i)
      /\ UNCHANGED <<running, sinkQueue, direct, ball, agentState, restored, crossed>>
  BY DEF ControllerHears
<1>2. /\ hands \in Seq(Hands) /\ h \in Hands /\ ctl \in Controllers /\ DOMAIN hands = 1 .. Len(hands)
      /\ Len(hands) \in Nat /\ i \in 1 .. Len(hands)
  BY DEF StatusInv, StatusTypes
<1>3. /\ ctl' \in Controllers
      /\ ~Tells(h) => /\ ctl'.state = ctl.state /\ h.event.kind # "finished"
                      /\ h.event.kind = "prompt" => ~Busy(ctl.state)
      /\ h.event.kind = "finished" => ~Busy(ctl'.state)
  BY <1>1, <1>2, HeardIs
<1>4. ASSUME Tells(h)
      PROVE  \E g \in Hands : /\ hands' = [hands EXCEPT ![i] = g] /\ g.event.kind = "state" /\ g.event.state = ctl'.state
  <2>1. ctl'.state \in States
    BY <1>3 DEF Controllers
  <2>2. PICK e \in Told : e = State(ctl'.state) /\ e.kind = "state" /\ e.state = ctl'.state
    BY <2>1, StateTold
  <2>3. PICK g \in Hands : g = Hand(h.reader, h.stopped, e, "none", "none") /\ g.event = e
    <3>1. /\ h.reader \in Readers \cup {"run"} /\ h.stopped \in BOOLEAN
          /\ "none" \in Messages \cup {"none"} /\ "none" \in Statuses
      BY <1>2 DEF Hands, Statuses
    <3>2. PICK r \in Readers \cup {"run"}, b \in BOOLEAN, n \in Messages \cup {"none"}, st \in Statuses :
            r = h.reader /\ b = h.stopped /\ n = "none" /\ st = "none"
      BY <3>1
    <3>3. PICK g \in Hands : g = Hand(r, b, e, n, st) /\ g.event = e
      BY HandIs
    <3> QED  BY <3>2, <3>3
  <2>4. hands' = [hands EXCEPT ![i] = g]
    BY <1>1, <1>4, <2>2, <2>3
  <2> QED  BY <2>2, <2>3, <2>4
<1>5. ASSUME Tells(h)
      PROVE  /\ hands' \in Seq(Hands) /\ Len(hands') = Len(hands) /\ DOMAIN hands' = DOMAIN hands
             /\ hands'[i].event.kind = "state" /\ hands'[i].event.state = ctl'.state
             /\ \A j \in DOMAIN hands : j # i => hands'[j] = hands[j]
  BY <1>2, <1>4, <1>5
<1>6. ASSUME ~Tells(h)
      PROVE  /\ hands' = RemoveAt(hands, i) /\ hands' \in Seq(Hands) /\ Len(hands') = Len(hands) - 1
             /\ \A j \in DOMAIN hands : j # i => \E k \in DOMAIN hands' : hands'[k] = hands[j]
             /\ \A k \in DOMAIN hands' : \E j \in DOMAIN hands : hands'[k] = hands[j]
             /\ Len(hands) = 1 => hands' = <<>>
  <2>1. hands' = RemoveAt(hands, i)
    BY <1>1, <1>6
  <2> QED  BY <1>2, <2>1, RemoveIs, RemoveKeeps
<1>7. StatusTypes'
  BY <1>1, <1>3, <1>5, <1>6 DEF StatusInv, StatusTypes
<1>8. HandsRun'
  <2>1. CASE Tells(h)
    BY <1>1, <1>5, <2>1 DEF StatusInv, HandsRun
  <2>2. CASE ~Tells(h)
    BY <1>1, <1>6, <2>2 DEF StatusInv, HandsRun
  <2> QED  BY <2>1, <2>2
<1>9. OneWayAtATime'
  <2> SUFFICES ASSUME ~crossed PROVE direct = <<>> /\ Len(hands') <= 1
    BY <1>1 DEF OneWayAtATime
  <2>1. direct = <<>> /\ Len(hands) <= 1
    BY <1>2 DEF StatusInv, OneWayAtATime
  <2>2. Len(hands') = Len(hands) \/ Len(hands') = Len(hands) - 1
    BY <1>5, <1>6
  <2>3. Len(hands) \in Nat
    BY <1>2
  <2>4. Len(hands') <= 1
    BY <2>1, <2>2, <2>3
  <2> QED  BY <2>1, <2>4
<1>10. RunsWhenBusy'
  <2> SUFFICES ASSUME ~h.stopped, Busy(ctl'.state) PROVE running'
    BY <1>1 DEF RunsWhenBusy
  <2> QED  BY <1>1, <1>3 DEF StatusInv, HandsRun
<1>11. RestoredRuns'
  <2> SUFFICES ASSUME NEW j \in DOMAIN hands, hands[j].event.kind \in {"finished", "state"}
               PROVE  \E k \in DOMAIN hands' : hands'[k].event.kind \in {"finished", "state"}
    BY <1>1 DEF StatusInv, RestoredRuns
  <2>1. CASE Tells(h)
    BY <1>5, <2>1
  <2>2. CASE ~Tells(h)
    BY <1>1, <1>3, <1>6, <2>2
  <2> QED  BY <2>1, <2>2
<1>12. WillAgree'
  <2> SUFFICES ASSUME ~crossed, ~late
               PROVE  IF hands' = <<>>
                        THEN /\ sinkQueue' = <<>> => StopPending' \/ Agrees(direct)'
                             /\ direct' = <<>> => Agrees(sinkQueue)'
                        ELSE Carries(hands[1])'
    BY <1>1 DEF WillAgree
  <2>1. hands # <<>> /\ Len(hands) = 1 /\ i = 1 /\ direct = <<>>
    BY <1>2 DEF StatusInv, OneWayAtATime
  <2>2. CASE Tells(h)
    <3>1. hands' # <<>> /\ Carries(hands[1])'
      BY <1>5, <2>1, <2>2 DEF Carries
    <3> QED  BY <3>1
  <2>3. CASE ~Tells(h)
    <3>1. Carries(h)
      BY <2>1 DEF StatusInv, WillAgree
    <3>2. Agrees(sinkQueue)
      BY <1>1, <1>3, <2>3, <3>1 DEF Carries
    <3>3. Agrees(sinkQueue)'
      BY <1>1, <1>3, <2>3, <3>2 DEF Agrees, Fits, Right
    <3>4. sinkQueue' = <<>> => Agrees(direct)'
      BY <1>1, <2>1, <3>3
    <3>5. hands' = <<>>
      BY <1>6, <2>1, <2>3
    <3> QED  BY <3>3, <3>4, <3>5
  <2> QED  BY <2>2, <2>3
<1> QED  BY <1>7, <1>8, <1>9, <1>10, <1>11, <1>12 DEF StatusInv

\* What the controller said of it goes into the sink.
LEMMA RunnerTellsKeeps == ASSUME StatusInv, NEW i \in DOMAIN hands, RunnerTells(i) PROVE StatusInv'
<1>1. /\ hands[i].event.kind = "state" /\ sinkQueue' = Append(sinkQueue, hands[i].event)
      /\ hands' = RemoveAt(hands, i) /\ Met(sinkQueue', direct, hands')
      /\ UNCHANGED <<running, ctl, direct, ball, agentState, restored, late>>
  BY DEF RunnerTells
<1>2. /\ hands \in Seq(Hands) /\ hands[i] \in Hands /\ DOMAIN hands = 1 .. Len(hands)
      /\ Len(hands) \in Nat /\ i \in 1 .. Len(hands)
  BY DEF StatusInv, StatusTypes
<1>3. PICK e \in Told : e = hands[i].event /\ sinkQueue' = Append(sinkQueue, e)
  BY <1>1, <1>2 DEF Hands
<1>4. /\ sinkQueue' \in Seq(Told) /\ sinkQueue' # <<>> /\ Len(sinkQueue') > 0 /\ sinkQueue'[Len(sinkQueue')] = e
  BY <1>3 DEF StatusInv, StatusTypes
<1>5. /\ hands' \in Seq(Hands) /\ Len(hands') = Len(hands) - 1 /\ (Len(hands) = 1 => hands' = <<>>)
      /\ \A k \in DOMAIN hands' : \E j \in DOMAIN hands : hands'[k] = hands[j]
  BY <1>1, <1>2, RemoveIs, RemoveKeeps
<1>6. StatusTypes'
  BY <1>1, <1>4, <1>5 DEF StatusInv, StatusTypes
<1>7. HandsRun'
  BY <1>1, <1>5 DEF StatusInv, HandsRun
<1>8. ~crossed' => /\ ~crossed /\ direct = <<>> /\ Len(hands) = 1 /\ i = 1 /\ hands' = <<>>
  <2>1. ~crossed' => ~crossed /\ direct = <<>>
    BY <1>1, <1>4, Zenon DEF Met
  <2>2. ~crossed => Len(hands) <= 1
    BY DEF StatusInv, OneWayAtATime
  <2>3. Len(hands) <= 1 => Len(hands) = 1 /\ i = 1
    BY <1>2
  <2> QED  BY <1>5, <2>1, <2>2, <2>3
<1>9. OneWayAtATime'
  BY <1>1, <1>8 DEF OneWayAtATime
<1>10. RunsWhenBusy'
  <2> SUFFICES ASSUME ~crossed', ~late, Busy(ctl.state) PROVE running
    BY <1>1 DEF RunsWhenBusy
  <2>1. ~crossed /\ direct = <<>> /\ \A j \in DOMAIN hands : hands[j].event.kind = "state"
    <3>0. Len(hands) = 1 /\ i = 1
      BY <1>8
    <3>1. \A j \in 1 .. Len(hands) : j = i
      BY <3>0
    <3> QED  BY <1>1, <1>2, <1>8, <3>1
  <2> QED  BY <2>1 DEF StatusInv, RunsWhenBusy, StopPending, EndPending
<1>11. RestoredRuns'
  BY <1>4 DEF RestoredRuns
<1>12. WillAgree'
  <2> SUFFICES ASSUME ~crossed', ~late PROVE Agrees(sinkQueue)'
    BY <1>1, <1>4, <1>8 DEF WillAgree
  <2>1. Carries(hands[1]) /\ hands[1].event.kind = "state"
    BY <1>1, <1>8 DEF StatusInv, WillAgree
  <2>2. e.kind = "state" /\ e.state = ctl'.state
    BY <1>1, <1>3, <1>8, <2>1 DEF Carries
  <2>3. Len(sinkQueue') \in Nat
    BY <1>4
  <2> QED  BY <1>4, <2>2, <2>3 DEF Agrees, Fits
<1> QED  BY <1>6, <1>7, <1>9, <1>10, <1>11, <1>12 DEF StatusInv

\* AIStatusEventForBackendEvent, for one event that fits and for a status.
LEMMA FitMakesRight ==
  ASSUME NEW e \in Told, Fits(e), ball \in BOOLEAN, Right(ball) \/ e.kind = "state"
  PROVE  Right(AIStatus(e))
<1>1. CASE e.kind = "state"
  BY <1>1 DEF AIStatus, Fits, Right
<1>2. CASE e.kind = "prompt"
  <2>1. Busy(ctl.state) = FALSE
    BY <1>2 DEF Fits, Busy
  <2> QED  BY <1>2, <2>1 DEF AIStatus, Right
<1>3. CASE e.kind = "reply"
  <2>1. CASE Busy(ctl.state)
    BY <1>3, <2>1 DEF AIStatus, Right
  <2>2. CASE ~Busy(ctl.state)
    <3>1. Busy(ctl.state) = FALSE
      BY <2>2 DEF Busy
    <3> QED  BY <1>3, <2>2, <3>1 DEF AIStatus, Right
  <2> QED  BY <2>1, <2>2
<1>4. CASE e.kind = "session"
  BY <1>4 DEF AIStatus, Right
<1>5. CASE e.kind \in {"diff", "step", "line", "finished"}
  BY <1>5 DEF AIStatus, Right
<1> QED  BY <1>1, <1>2, <1>3, <1>4, <1>5 DEF Told, EventKinds

LEMMA ProcessOne ==
  ASSUME NEW q \in Seq(Told), q # <<>>, Agrees(q), ball \in BOOLEAN
  PROVE  \E i \in 0 .. Len(Tail(q)) :
           /\ i = 0 => Right(AIStatus(Head(q)))
           /\ i > 0 => Tail(q)[i].kind = "state" /\ Fits(Tail(q)[i])
           /\ \A j \in i + 1 .. Len(Tail(q)) : Fits(Tail(q)[j])
<1>1. PICK i \in 0 .. Len(q) :
        /\ i = 0 => Right(ball)
        /\ i > 0 => q[i].kind = "state" /\ Fits(q[i])
        /\ \A j \in i + 1 .. Len(q) : Fits(q[j])
  BY DEF Agrees
<1>2. /\ Head(q) = q[1] /\ Head(q) \in Told /\ Len(q) \in Nat \ {0} /\ Len(Tail(q)) = Len(q) - 1
      /\ \A j \in 1 .. Len(Tail(q)) : Tail(q)[j] = q[j + 1]
  OBVIOUS
<1>3. CASE i > 1
  <2>1. PICK k \in 0 .. Len(Tail(q)) : k = i - 1
    BY <1>2, <1>3
  <2>2. k > 0 /\ Tail(q)[k] = q[i]
    BY <1>2, <1>3, <2>1
  <2>3. ASSUME NEW j \in k + 1 .. Len(Tail(q)) PROVE Fits(Tail(q)[j])
    <3>1. j \in 1 .. Len(Tail(q)) /\ j + 1 \in i + 1 .. Len(q)
      BY <1>2, <1>3, <2>1
    <3> QED  BY <1>1, <1>2, <3>1
  <2>4. Tail(q)[k].kind = "state" /\ Fits(Tail(q)[k])
    BY <1>1, <1>3, <2>2
  <2> QED  BY <2>2, <2>3, <2>4
<1>4. CASE i <= 1
  <2>1. Fits(Head(q)) /\ (Right(ball) \/ Head(q).kind = "state")
    <3>1. CASE i = 0
      BY <3>1, <1>1, <1>2
    <3>2. CASE i = 1
      BY <3>2, <1>1, <1>2
    <3> QED  BY <1>4, <3>1, <3>2
  <2>2. Right(AIStatus(Head(q)))
    BY <1>2, <2>1, FitMakesRight
  <2>3. PICK k \in 0 .. Len(Tail(q)) : k = 0
    BY <1>2
  <2>4. ASSUME NEW j \in k + 1 .. Len(Tail(q)) PROVE Fits(Tail(q)[j])
    <3>1. j \in 1 .. Len(Tail(q)) /\ j + 1 \in i + 1 .. Len(q)
      BY <1>2, <1>4, <2>3
    <3> QED  BY <1>1, <1>2, <3>1
  <2>5. ~(k > 0)
    BY <2>3
  <2> QED  BY <2>2, <2>4, <2>5
<1>5. i > 1 \/ i <= 1
  BY <1>2
<1> QED  BY <1>3, <1>4, <1>5, Zenon

LEMMA StatusIsBoolean == ASSUME NEW e \in Told, ball \in BOOLEAN PROVE AIStatus(e) \in BOOLEAN
<1>1. Busy(e.state) \in BOOLEAN /\ Busy(ctl.state) \in BOOLEAN
  BY BusyIs
<1> QED  BY <1>1 DEF AIStatus, Told, EventKinds

\* The events of one way are processed one after the other.
LEMMA ProcessKeeps ==
  ASSUME StatusInv, SinkProcesses \/ ConnProcesses
  PROVE  StatusInv'
<1>1. /\ UNCHANGED <<running, hands, ctl, late, crossed>> /\ restored' = FALSE
      /\ \/ /\ sinkQueue # <<>> /\ Process(Head(sinkQueue)) /\ sinkQueue' = Tail(sinkQueue) /\ direct' = direct
         \/ /\ direct # <<>> /\ Head(direct).kind # "finished"
            /\ Process(Head(direct)) /\ direct' = Tail(direct) /\ sinkQueue' = sinkQueue
  BY DEF SinkProcesses, ConnProcesses, Process
<1>2. PICK e \in Told : Process(e)
  BY <1>1 DEF StatusInv, StatusTypes
<1>3. StatusTypes'
  <2>1. ball' \in BOOLEAN
    <3>1. ball \in BOOLEAN /\ ball' = AIStatus(e)
      BY <1>2 DEF Process, StatusInv, StatusTypes
    <3>2. AIStatus(e) \in BOOLEAN
      BY <3>1, StatusIsBoolean
    <3> QED  BY <3>1, <3>2, Zenon
  <2>2. agentState' \in States \cup {"none"}
    <3>1. agentState' \in {e.state, agentState}
      BY <1>2 DEF Process
    <3>2. e.state \in States \cup {"none"}
      BY DEF Told
    <3> QED  BY <3>1, <3>2 DEF StatusInv, StatusTypes
  <2>3. sinkQueue' \in Seq(Told) /\ direct' \in Seq(Told)
    <3>1. sinkQueue \in Seq(Told) /\ direct \in Seq(Told)
      BY DEF StatusInv, StatusTypes
    <3>2. \A q \in Seq(Told) : q # <<>> => Tail(q) \in Seq(Told)
      OBVIOUS
    <3> QED  BY <1>1, <3>1, <3>2
  <2> QED  BY <1>1, <2>1, <2>2, <2>3 DEF StatusInv, StatusTypes
<1>4. OneWayAtATime' /\ HandsRun'
  <2>1. (sinkQueue = <<>> => sinkQueue' = <<>>) \/ direct' = direct
    BY <1>1
  <2>2. ~crossed => (direct' = <<>> \/ (sinkQueue' = <<>> /\ hands = <<>>)) /\ Len(hands) <= 1
    BY <1>1 DEF StatusInv, OneWayAtATime
  <2> QED  BY <1>1, <2>2 DEF StatusInv, OneWayAtATime, HandsRun
<1>5. StopPending => StopPending'
  <2> SUFFICES ASSUME NEW i \in DOMAIN direct, direct[i].kind = "finished"
               PROVE  \E j \in DOMAIN direct' : direct'[j].kind = "finished"
    BY DEF StopPending
  <2>1. CASE direct' = direct
    BY <2>1
  <2>2. CASE direct # <<>> /\ Head(direct).kind # "finished" /\ direct' = Tail(direct)
    <3>1. direct \in Seq(Told) /\ i \in 1 .. Len(direct) /\ i # 1
      BY <2>2 DEF StatusInv, StatusTypes
    <3>2. i - 1 \in DOMAIN Tail(direct) /\ Tail(direct)[i - 1] = direct[i]
      BY <2>2, <3>1
    <3> QED  BY <2>2, <3>2
  <2> QED  BY <1>1, <2>1, <2>2
<1>6. RunsWhenBusy' /\ RestoredRuns'
  BY <1>1, <1>5 DEF StatusInv, RunsWhenBusy, RestoredRuns, EndPending
<1>7. WillAgree'
  <2> SUFFICES ASSUME ~crossed, ~late
               PROVE  IF hands = <<>>
                        THEN /\ sinkQueue' = <<>> => StopPending' \/ Agrees(direct)'
                             /\ direct' = <<>> => Agrees(sinkQueue)'
                        ELSE Carries(hands[1])'
    BY <1>1 DEF WillAgree
  <2>1. CASE sinkQueue # <<>> /\ Process(Head(sinkQueue)) /\ sinkQueue' = Tail(sinkQueue) /\ direct' = direct
    <3>1. direct = <<>>
      BY <2>1 DEF StatusInv, OneWayAtATime
    <3>2. ASSUME Agrees(sinkQueue) PROVE Agrees(sinkQueue)'
      <4>1. \E i \in 0 .. Len(Tail(sinkQueue)) :
              /\ i = 0 => Right(AIStatus(Head(sinkQueue)))
              /\ i > 0 => Tail(sinkQueue)[i].kind = "state" /\ Fits(Tail(sinkQueue)[i])
              /\ \A j \in i + 1 .. Len(Tail(sinkQueue)) : Fits(Tail(sinkQueue)[j])
        BY <2>1, <3>2, ProcessOne DEF StatusInv, StatusTypes
      <4>2. ball' = AIStatus(Head(sinkQueue))
        BY <2>1 DEF Process
      <4> QED  BY <2>1, <4>1, <4>2, <1>1 DEF Agrees, Fits, Right
    <3>3. CASE hands = <<>>
      <4>1. Agrees(sinkQueue)'
        BY <3>1, <3>2, <3>3 DEF StatusInv, WillAgree
      <4>2. sinkQueue' = <<>> => Agrees(direct)'
        BY <2>1, <3>1, <4>1
      <4> QED  BY <3>3, <4>1, <4>2
    <3>4. CASE hands # <<>>
      <4>1. Carries(hands[1])
        BY <3>4 DEF StatusInv, WillAgree
      <4> QED  BY <1>1, <3>2, <3>4, <4>1 DEF Carries
    <3> QED  BY <3>3, <3>4
  <2>2. CASE direct # <<>> /\ Process(Head(direct)) /\ direct' = Tail(direct) /\ sinkQueue' = sinkQueue
    <3>1. sinkQueue = <<>> /\ hands = <<>> /\ (StopPending \/ Agrees(direct))
      BY <2>2 DEF StatusInv, OneWayAtATime, WillAgree
    <3>2. ASSUME Agrees(direct) PROVE Agrees(direct)'
      <4>1. \E i \in 0 .. Len(Tail(direct)) :
              /\ i = 0 => Right(AIStatus(Head(direct)))
              /\ i > 0 => Tail(direct)[i].kind = "state" /\ Fits(Tail(direct)[i])
              /\ \A j \in i + 1 .. Len(Tail(direct)) : Fits(Tail(direct)[j])
        BY <2>2, <3>2, ProcessOne DEF StatusInv, StatusTypes
      <4>2. ball' = AIStatus(Head(direct))
        BY <2>2 DEF Process
      <4> QED  BY <2>2, <4>1, <4>2, <1>1 DEF Agrees, Fits, Right
    <3>3. StopPending' \/ Agrees(direct)'
      BY <1>5, <3>1, <3>2
    <3>4. direct' = <<>> => ~StopPending'
      BY DEF StopPending
    <3>5. direct' = <<>> => Agrees(sinkQueue)'
      BY <2>2, <3>1, <3>3, <3>4
    <3> QED  BY <3>1, <3>3, <3>5
  <2> QED  BY <1>1, <2>1, <2>2
<1> QED  BY <1>3, <1>4, <1>6, <1>7 DEF StatusInv

\* A client that loads the session: without a runner nothing is shown at work.
LEMMA LoadKeepsStatus == ASSUME StatusInv, SessionLoad PROVE StatusInv'
<1>1. direct = <<>> /\ UNCHANGED <<running, hands, ctl, sinkQueue, direct, late, crossed>>
  BY DEF SessionLoad
<1>2. \/ UNCHANGED <<agentState, ball, restored>>
      \/ agentState' = RestoredState /\ ball' = Busy(RestoredState)
  BY DEF SessionLoad
<1>3. RestoredState \in States /\ (Busy(RestoredState) => running)
  <2>1. CASE Busy(ctl.state) /\ ~running
    BY <2>1, NotBusy DEF RestoredState, States
  <2>2. CASE ~(Busy(ctl.state) /\ ~running)
    <3>1. RestoredState = ctl.state
      BY <2>2 DEF RestoredState
    <3> QED  BY <2>2, <3>1 DEF StatusInv, StatusTypes, Controllers
  <2> QED  BY <2>1, <2>2
<1>4. StatusTypes'
  BY <1>1, <1>2, <1>3, BusyIs DEF StatusInv, StatusTypes
<1>5. RestoredRuns'
  BY <1>1, <1>2, <1>3 DEF StatusInv, RestoredRuns
<1>6. WillAgree'
  <2> SUFFICES ASSUME ~crossed, ~late
               PROVE  IF hands = <<>>
                        THEN /\ sinkQueue = <<>> => StopPending' \/ Agrees(direct)'
                             /\ direct = <<>> => Agrees(sinkQueue)'
                        ELSE Carries(hands[1])'
    BY <1>1 DEF WillAgree
  <2>1. CASE EndPending
    <3>1. hands # <<>> /\ hands[1].event.kind = "finished"
      BY <2>1 DEF EndPending, StatusInv, OneWayAtATime, StatusTypes
    <3> QED  BY <1>1, <3>1 DEF Carries
  <2>2. CASE ~EndPending
    <3>1. RestoredState = ctl.state
      <4>1. ~StopPending
        BY <1>1 DEF StopPending
      <4> QED  BY <2>2, <4>1 DEF RestoredState, StatusInv, RunsWhenBusy
    <3>2. ball' \in {ball, Busy(ctl.state)}
      BY <1>2, <3>1
    <3>3. \A q : Agrees(q) =>
            \E i \in 0 .. Len(q) :
              /\ i = 0 => Right(ball')
              /\ i > 0 => q[i].kind = "state" /\ Fits(q[i])
              /\ \A j \in i + 1 .. Len(q) : Fits(q[j])
      BY <3>2 DEF Agrees, Right
    <3>4. (Agrees(sinkQueue) => Agrees(sinkQueue)') /\ (Agrees(direct) => Agrees(direct)')
      BY <1>1, <3>3 DEF Agrees, Fits, Right
    <3>5. CASE hands = <<>>
      BY <1>1, <3>4, <3>5 DEF StatusInv, WillAgree, StopPending
    <3>6. CASE hands # <<>>
      <4>1. Carries(hands[1])
        BY <3>6 DEF StatusInv, WillAgree
      <4> QED  BY <1>1, <3>4, <3>6, <4>1 DEF Carries
    <3> QED  BY <3>5, <3>6
  <2> QED  BY <2>1, <2>2
<1> QED  BY <1>1, <1>4, <1>5, <1>6 DEF StatusInv, HandsRun, OneWayAtATime, RunsWhenBusy, StopPending, EndPending

LEMMA StatusStep == StatusInv /\ [StatusNext]_statusVars => StatusInv'
<1> SUFFICES ASSUME StatusInv, [StatusNext]_statusVars PROVE StatusInv'
  OBVIOUS
<1>1. CASE UNCHANGED <<running, hands, ctl, sinkQueue, direct, ball, agentState, restored, late, crossed>>
  BY <1>1 DEF StatusInv, StatusTypes, HandsRun, OneWayAtATime, RunsWhenBusy, WillAgree, RestoredRuns, Carries, Agrees,
              Fits, Right, StopPending, EndPending
<1>2. CASE UNCHANGED statusVars
  BY <1>1, <1>2 DEF statusVars
<1>3. CASE StoppedRunEnds
  BY <1>1, <1>3 DEF StoppedRunEnds
<1>4. CASE Execute \/ StopActive \/ StopFinishes \/ RunEnds
  BY <1>4, ExecuteKeeps, StopKeeps, StopFinishesKeeps, EndKeepsStatus
<1>5. CASE \E k \in {"input", "allow", "deny"} : InputSent(k)
  BY <1>5, InputKeeps
<1>6. CASE \E r \in Readers, b \in BOOLEAN : RunnerEmits(r, b)
  BY <1>6, EmitKeeps
<1>7. CASE \E i \in DOMAIN hands : ControllerHears(i) \/ RunnerTells(i)
  BY <1>7, HearsKeeps, RunnerTellsKeeps
<1>8. CASE SinkProcesses \/ ConnProcesses \/ SessionLoad
  BY <1>8, ProcessKeeps, LoadKeepsStatus
<1> QED  BY <1>2, <1>3, <1>4, <1>5, <1>6, <1>7, <1>8 DEF StatusNext

\* For any messages and however many events are on their way: whatever the sink and
\* the connection's goroutine process, AIStatusEventForBackendEvent lights the ball
\* exactly while the controller is busy, unless a stopped runner's event or two
\* goroutines at a time got in between; and no load of the session shows a command
\* at work that is not.
THEOREM BallIsRight == StatusSpec => []BallFollowsCommand
<1>1. StatusInv => BallFollowsCommand
  <2> SUFFICES ASSUME StatusInv PROVE BallFollowsCommand
    OBVIOUS
  <2>1. ASSUME hands = <<>>, sinkQueue = <<>>, direct = <<>>, ~crossed, ~late
        PROVE  ball = Busy(ctl.state) /\ (Busy(ctl.state) => running)
    <3>1. Agrees(sinkQueue) /\ Len(sinkQueue) = 0
      BY <2>1 DEF StatusInv, WillAgree
    <3>2. ball = Busy(ctl.state)
      BY <3>1 DEF Agrees, Right
    <3>3. ~StopPending /\ ~EndPending
      BY <2>1 DEF StopPending, EndPending
    <3> QED  BY <2>1, <3>2, <3>3 DEF StatusInv, RunsWhenBusy
  <2>2. (restored /\ Busy(agentState)) => running \/ hands # <<>> \/ sinkQueue # <<>> \/ direct # <<>>
    <3>1. hands = <<>> => ~\E i \in DOMAIN hands : hands[i].event.kind \in {"finished", "state"}
      OBVIOUS
    <3> QED  BY <3>1 DEF StatusInv, RestoredRuns
  <2> QED  BY <2>1, <2>2 DEF BallFollowsCommand
<1> QED  BY <1>1, StatusInitOK, StatusStep, PTL DEF StatusSpec
=============================================================================
