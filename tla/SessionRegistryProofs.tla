----------------------- MODULE SessionRegistryProofs ------------------------
(***************************************************************************)
(* The life of runtime entries, for any number of connections, sessions    *)
(* and entries: who is attached holds the registered entry, an entry in    *)
(* cleanup is nobody's, and an entry that everybody left has a timer.      *)
(***************************************************************************)
EXTENDS SessionRegistry, FiniteSetTheorems, TLAPS

\* Entries not made yet are as RegistryInit leaves them.
Fresh == \A e \in Entries : e > made => cleaning[e] = "no" /\ sink[e] = "none"

\* Entries with a sink, a timer or a cleanup were made for a session.
UsedAreMade ==
  \A e \in Entries :
    (sink[e] # "none" \/ timer[e] \/ callbacks[e] > 0 \/ cleaning[e] # "no") => sessionOf[e] \in Sessions

\* A sink is shut down by the cleanup of its entry only.
ShutIsCleaned == \A e \in Entries : sink[e] = "shut" => cleaning[e] # "no"

\* Every switch under way finds an entry to make (a bound of the model).
Busy == {c \in Conns : at[c] \in {"leaving", "moving"}}
RoomLeft == Cardinality(Busy) <= MaxEntries - made

\* The inductive invariant.
RegInv ==
  /\ RegistryTypeOK
  /\ Fresh
  /\ UsedAreMade
  /\ ShutIsCleaned
  /\ RoomLeft
  /\ AttachedEntryLive
  /\ CleanedEntryUnused
  /\ ReleasedEntryGuarded

LEMMA EntriesBounded == MaxEntries \in Nat
BY RegistryAssumption

LEMMA Constants ==
  MaxEntries \in Nat /\ IsFiniteSet(Conns) /\ NoConn \notin Conns /\ NoSession \notin Sessions
BY RegistryAssumption DEF NoConn, NoSession

LEMMA InitRegInv == RegistryInit => RegInv
<1> SUFFICES ASSUME RegistryInit PROVE RegInv
  OBVIOUS
<1> USE EntriesBounded DEF RegistryInit, Entries, NoEntry
<1>1. RegistryTypeOK
  <2>1. made \in 0 .. MaxEntries /\ registry \in [Sessions -> 0 .. made]
    OBVIOUS
  <2>2. /\ sessionOf \in [Entries -> Sessions \cup {NoSession}]
        /\ \A s \in Sessions : registry[s] # NoEntry => sessionOf[registry[s]] = s
        /\ listeners \in [Entries -> SUBSET Conns]
        /\ timer \in [Entries -> BOOLEAN]
        /\ callbacks \in [Entries -> Nat]
        /\ runner \in [Entries -> {"none", "running", "closing"}]
        /\ sink \in [Entries -> {"none", "open", "shut"}]
        /\ sinkFn \in [Entries -> Conns \cup {NoConn}]
    OBVIOUS
  <2>3. /\ cleaning \in [Entries -> {"no", "sink", "service", "wait", "get", "put", "done"}]
        /\ at \in [Conns -> {"ready", "leaving", "moving", "gone"}]
        /\ selected \in [Conns -> Sessions \cup {NoSession}]
        /\ target \in [Conns -> Sessions \cup {NoSession}]
        /\ active \in [Conns -> 0 .. made]
        /\ task \in [Conns -> 0 .. made]
        /\ record \in [Sessions -> {"absent", "stored", "deleted"}]
    OBVIOUS
  <2> QED  BY <2>1, <2>2, <2>3 DEF RegistryTypeOK
<1>2. RoomLeft
  <2>1. Busy = {}
    BY DEF Busy
  <2>2. Cardinality(Busy) = 0
    BY <2>1, FS_EmptySet
  <2> QED  BY <2>2 DEF RoomLeft
<1>3. Fresh /\ UsedAreMade /\ ShutIsCleaned /\ AttachedEntryLive /\ CleanedEntryUnused /\ ReleasedEntryGuarded
  BY DEF Fresh, UsedAreMade, ShutIsCleaned, AttachedEntryLive, CleanedEntryUnused, ReleasedEntryGuarded
<1> QED  BY <1>1, <1>2, <1>3 DEF RegInv

-----------------------------------------------------------------------------
(* Room for entries.                                                       *)

LEMMA BusyFinite == IsFiniteSet(Busy) /\ Cardinality(Busy) \in Nat
BY Constants, FS_Subset, FS_CardinalityType DEF Busy

LEMMA RoomAfterDepart ==
  ASSUME RegistryTypeOK, Spare, NEW c \in Conns, UNCHANGED made,
         at' = [at EXCEPT ![c] = "leaving"]
  PROVE  RoomLeft'
<1>1. Busy' = Busy \cup {c}
  BY DEF Busy, RegistryTypeOK
<1>2. Cardinality(Busy) < MaxEntries - made
  BY DEF Spare, Busy
<1>3. Cardinality(Busy \cup {c}) \in Nat /\ Cardinality(Busy \cup {c}) <= Cardinality(Busy) + 1
  <2>1. Cardinality(Busy \cup {c}) =
          IF c \in Busy THEN Cardinality(Busy) ELSE Cardinality(Busy) + 1
    BY BusyFinite, FS_AddElement
  <2> QED  BY <2>1, BusyFinite
<1> QED  BY <1>1, <1>2, <1>3, BusyFinite, Constants DEF RoomLeft, RegistryTypeOK

LEMMA RoomAfterArrive ==
  ASSUME RegistryTypeOK, RoomLeft, NEW c \in Conns, at[c] = "moving",
         at' = [at EXCEPT ![c] = "ready"], made' \in {made, made + 1}
  PROVE  RoomLeft' /\ made < MaxEntries
<1>1. Busy' = Busy \ {c} /\ c \in Busy
  BY DEF Busy, RegistryTypeOK
<1>2. Cardinality(Busy \ {c}) = Cardinality(Busy) - 1 /\ Cardinality(Busy \ {c}) \in Nat
  BY <1>1, BusyFinite, FS_RemoveElement, FS_CardinalityType
<1> QED  BY <1>1, <1>2, BusyFinite, Constants DEF RoomLeft, RegistryTypeOK

LEMMA RoomKept ==
  ASSUME RoomLeft, UNCHANGED <<made, Busy>>
  PROVE  RoomLeft'
BY DEF RoomLeft

-----------------------------------------------------------------------------
(* ensureLocked.                                                           *)

LEMMA EnsureMakes ==
  ASSUME RegistryTypeOK, NEW s \in Sessions, Ensure(s), registry[s] = NoEntry => made < MaxEntries
  PROVE  /\ made' \in 0 .. MaxEntries /\ made' \in {made, made + 1}
         /\ registry' \in [Sessions -> 0 .. made']
         /\ sessionOf' \in [Entries -> Sessions \cup {NoSession}]
         /\ \A t \in Sessions : registry'[t] # NoEntry => sessionOf'[registry'[t]] = t
         /\ \A t \in Sessions : t # s => registry'[t] = registry[t]
         /\ EntryFor(s) \in Entries /\ EntryFor(s) <= made' /\ registry'[s] = EntryFor(s)
         /\ registry[s] # NoEntry => registry'[s] = registry[s]
         /\ registry[s] = NoEntry => EntryFor(s) > made
         /\ \A x \in Entries : sessionOf[x] \in Sessions => sessionOf'[x] \in Sessions
<1> USE Constants DEF RegistryTypeOK, Entries, NoEntry, EntryFor
<1>1. CASE registry[s] # NoEntry
  BY <1>1 DEF Ensure, regVars
<1>2. CASE registry[s] = NoEntry
  <2>1. /\ made' = made + 1
        /\ registry' = [registry EXCEPT ![s] = made + 1]
        /\ sessionOf' = [sessionOf EXCEPT ![made + 1] = s]
    BY <1>2 DEF Ensure
  <2>2. made + 1 \in Entries
    BY <1>2
  <2>3. \A t \in Sessions : t # s => registry'[t] = registry[t] /\ registry[t] # made + 1
    BY <2>1
  <2>4. registry'[s] = made + 1 /\ sessionOf'[made + 1] = s
    BY <2>1, <2>2
  <2>5. \A t \in Sessions : registry'[t] # NoEntry => sessionOf'[registry'[t]] = t
    BY <2>1, <2>2, <2>3, <2>4
  <2>6. registry' \in [Sessions -> 0 .. made']
    BY <2>1
  <2> QED  BY <1>2, <2>1, <2>2, <2>3, <2>4, <2>5, <2>6
<1> QED  BY <1>1, <1>2

\* What is registered is registered under its own session, and nowhere else.
LEMMA RegisteredOnce ==
  ASSUME RegistryTypeOK
  PROVE  /\ \A e \in Entries : Registered(e) => sessionOf[e] \in Sessions /\ registry[sessionOf[e]] = e
         /\ \A s, t \in Sessions : registry[s] = registry[t] /\ registry[s] # NoEntry => s = t
         /\ \A s \in Sessions : registry[s] # NoEntry => registry[s] \in Entries /\ registry[s] <= made
<1>1. \A s \in Sessions : registry[s] # NoEntry => sessionOf[registry[s]] = s
  BY DEF RegistryTypeOK
<1>2. \A s \in Sessions : registry[s] # NoEntry => registry[s] \in Entries /\ registry[s] <= made
  BY EntriesBounded DEF RegistryTypeOK, Entries, NoEntry
<1>3. \A e \in Entries : e # NoEntry
  BY EntriesBounded DEF Entries, NoEntry
<1> QED  BY <1>1, <1>2, <1>3 DEF Registered

\* A connection in a session at rest: its entry.
LEMMA AttachedEntry ==
  ASSUME RegistryTypeOK, AttachedEntryLive, NEW c \in Conns, at[c] \in {"ready", "leaving"}, selected[c] # NoSession
  PROVE  /\ selected[c] \in Sessions /\ active[c] \in Entries
         /\ registry[selected[c]] = active[c]
         /\ cleaning[active[c]] = "no" /\ sink[active[c]] = "open" /\ c \in listeners[active[c]]
<1>1. selected[c] \in Sessions
  BY DEF RegistryTypeOK
<1>2. active[c] = registry[selected[c]] /\ active[c] # NoEntry
  BY DEF AttachedEntryLive
<1> QED  BY <1>1, <1>2, RegisteredOnce DEF AttachedEntryLive

-----------------------------------------------------------------------------
(* The handlers of a connection.                                           *)

LEMMA DepartStep ==
  ASSUME RegInv, NEW c \in Conns, NEW s \in Sessions \cup {NoSession}, at[c] = "ready", Depart(c, s),
         UNCHANGED <<regVars, lifeVars, svcVars, cleaning>>,
         record' \in [Sessions -> {"absent", "stored", "deleted"}]
  PROVE  RegInv'
<1> USE DEF RegInv, regVars, lifeVars, svcVars
<1>1. /\ Spare /\ UNCHANGED <<selected, active, task>>
      /\ at' = [at EXCEPT ![c] = "leaving"]
      /\ target' = [target EXCEPT ![c] = s]
  BY DEF Depart
<1>2. RegistryTypeOK'
  BY <1>1 DEF RegistryTypeOK
<1>3. RoomLeft'
  BY <1>1, RoomAfterDepart
<1>4. AttachedEntryLive'
  <2>1. \A d \in Conns : at'[d] \in {"ready", "leaving"} => at[d] \in {"ready", "leaving"}
    BY <1>1 DEF RegistryTypeOK
  <2> QED  BY <1>1, <2>1 DEF AttachedEntryLive
<1>5. Fresh' /\ UsedAreMade' /\ ShutIsCleaned' /\ CleanedEntryUnused' /\ ReleasedEntryGuarded'
  BY DEF Fresh, UsedAreMade, ShutIsCleaned, CleanedEntryUnused, ReleasedEntryGuarded, Registered
<1> QED  BY <1>2, <1>3, <1>4, <1>5

LEMMA CreateStep ==
  ASSUME RegInv, NEW c \in Conns, Create(c)
  PROVE  RegInv'
<1> DEFINE fresh == {s \in Sessions : record[s] = "absent"}
           s == CHOOSE x \in fresh : TRUE
<1>1. fresh # {} /\ s \in Sessions
  BY DEF Create
<1>2. /\ at[c] = "ready" /\ Depart(c, s)
      /\ record' = [record EXCEPT ![s] = "stored"]
      /\ UNCHANGED <<regVars, lifeVars, svcVars, cleaning>>
  BY DEF Create
<1> HIDE DEF s
<1>3. record' \in [Sessions -> {"absent", "stored", "deleted"}]
  BY <1>2 DEF RegInv, RegistryTypeOK
<1> QED  BY <1>1, <1>2, <1>3, DepartStep

LEMMA RequestStep ==
  ASSUME RegInv, NEW c \in Conns, NEW s \in Sessions, Request(c, s)
  PROVE  RegInv'
BY DepartStep DEF Request, RegInv, RegistryTypeOK

\* A step that touches no entry, no connection and no registration.
LEMMA RecordStep ==
  ASSUME RegInv, UNCHANGED <<regVars, lifeVars, svcVars, cleaning, connVars>>,
         record' \in [Sessions -> {"absent", "stored", "deleted"}]
  PROVE  RegInv'
<1> USE DEF RegInv, regVars, lifeVars, svcVars, connVars
<1>1. RegistryTypeOK' /\ RoomLeft'
  BY RoomKept DEF RegistryTypeOK, Busy
<1>2. Fresh' /\ UsedAreMade' /\ ShutIsCleaned' /\ CleanedEntryUnused' /\ ReleasedEntryGuarded' /\ AttachedEntryLive'
  BY DEF Fresh, UsedAreMade, ShutIsCleaned, CleanedEntryUnused, ReleasedEntryGuarded, AttachedEntryLive, Registered
<1> QED  BY <1>1, <1>2

LEMMA DeleteStep ==
  ASSUME RegInv, NEW c \in Conns, NEW s \in Sessions, Delete(c, s)
  PROVE  RegInv'
<1>1. /\ at[c] = "ready"
      /\ UNCHANGED <<regVars, lifeVars, svcVars, cleaning>>
      /\ record' \in [Sessions -> {"absent", "stored", "deleted"}]
  BY DEF Delete, RegInv, RegistryTypeOK
<1>2. CASE s = selected[c]
  <2>1. PICK f \in {x \in Sessions \ {s} : record[x] = "stored"} \cup {NoSession} : Depart(c, f)
    BY <1>2 DEF Delete
  <2> QED  BY <1>1, <2>1, DepartStep
<1>3. CASE s # selected[c]
  BY <1>1, <1>3, RecordStep DEF Delete
<1> QED  BY <1>2, <1>3

\* A step that changes only whose closure serves an entry, and the command of
\* an entry that is not being cleaned up or whose command ends.
LEMMA ServiceStep ==
  ASSUME RegInv, NEW e \in Entries,
         UNCHANGED <<regVars, lifeVars, sink, cleaning, connVars, record>>,
         sinkFn' \in [Entries -> Conns \cup {NoConn}],
         runner' \in [Entries -> {"none", "running", "closing"}],
         \A x \in Entries : runner'[x] # runner[x] => cleaning[x] = "no" \/ runner'[x] = "none"
  PROVE  RegInv'
<1> USE DEF RegInv, regVars, lifeVars, connVars
<1>1. RegistryTypeOK' /\ RoomLeft'
  BY RoomKept DEF RegistryTypeOK, Busy
<1>2. Fresh' /\ UsedAreMade' /\ ShutIsCleaned' /\ ReleasedEntryGuarded' /\ AttachedEntryLive'
  BY DEF Fresh, UsedAreMade, ShutIsCleaned, ReleasedEntryGuarded, AttachedEntryLive, Registered
<1>3. CleanedEntryUnused'
  BY DEF CleanedEntryUnused, Registered
<1> QED  BY <1>1, <1>2, <1>3

LEMMA ResumeStep ==
  ASSUME RegInv, NEW c \in Conns, Resume(c)
  PROVE  RegInv'
<1>1. active[c] \in Entries
  BY AttachedEntry DEF Resume, RegInv
<1>2. sinkFn' \in [Entries -> Conns \cup {NoConn}]
  BY DEF Resume, RegInv, RegistryTypeOK
<1> QED  BY <1>1, <1>2, ServiceStep DEF Resume, RegInv, RegistryTypeOK

LEMMA ExecStep ==
  ASSUME RegInv, NEW c \in Conns, Exec(c)
  PROVE  RegInv'
<1>1. active[c] \in Entries /\ cleaning[active[c]] = "no"
  BY AttachedEntry DEF Exec, RegInv
<1>2. sinkFn' \in [Entries -> Conns \cup {NoConn}]
  BY <1>1 DEF Exec, RegInv, RegistryTypeOK
<1>3. /\ runner' \in [Entries -> {"none", "running", "closing"}]
      /\ \A x \in Entries : runner'[x] # runner[x] => x = active[c]
  BY <1>1 DEF Exec, RegInv, RegistryTypeOK
<1> QED  BY <1>1, <1>2, <1>3, ServiceStep DEF Exec

LEMMA RunnerEndsStep ==
  ASSUME RegInv, NEW e \in Entries, RunnerEnds(e)
  PROVE  RegInv'
<1>1. /\ runner' \in [Entries -> {"none", "running", "closing"}]
      /\ \A x \in Entries : runner'[x] # runner[x] => runner'[x] = "none"
      /\ sinkFn' \in [Entries -> Conns \cup {NoConn}]
  BY DEF RunnerEnds, RegInv, RegistryTypeOK
<1> QED  BY <1>1, ServiceStep DEF RunnerEnds

LEMMA LeaveStep ==
  ASSUME RegInv, NEW c \in Conns, Leave(c)
  PROVE  RegInv'
<1> DEFINE s == selected[c]
           e == IF s = NoSession THEN NoEntry ELSE registry[s]
           last == e # NoEntry /\ listeners[e] \subseteq {c}
<1> USE DEF RegInv
<1>1. /\ at[c] = "leaving"
      /\ at' = [at EXCEPT ![c] = "moving"]
      /\ listeners' = [x \in Entries |-> IF x = e THEN listeners[x] \ {c} ELSE listeners[x]]
      /\ UNCHANGED <<made, sessionOf, callbacks, runner, sink, sinkFn, selected, active, target, record>>
  BY DEF Leave, svcVars
<1>2. e # NoEntry => s \in Sessions /\ e \in Entries /\ e <= made /\ registry[s] = e
  BY RegisteredOnce DEF RegistryTypeOK
<1>3. s # NoSession => active[c] = e /\ e # NoEntry /\ cleaning[e] = "no" /\ sink[e] = "open"
  BY <1>1 DEF AttachedEntryLive
<1>4. e # NoEntry => cleaning[e] = "no" /\ sink[e] = "open"
  BY <1>3
\* The others that are at rest listen to an entry of theirs.
<1>5. \A d \in Conns : (at'[d] \in {"ready", "leaving"} /\ selected[d] # NoSession) =>
        /\ d # c /\ at[d] \in {"ready", "leaving"}
        /\ selected[d] \in Sessions /\ active[d] \in Entries /\ registry[selected[d]] = active[d]
        /\ cleaning[active[d]] = "no" /\ sink[active[d]] = "open" /\ d \in listeners[active[d]]
        /\ active[d] # NoEntry
  BY <1>1, AttachedEntry DEF AttachedEntryLive, RegistryTypeOK
<1>6. RoomLeft'
  BY <1>1, RoomKept DEF Busy, RegistryTypeOK
<1>7. CASE last
  <2> HIDE DEF s, e
  <2>1. /\ registry' = [registry EXCEPT ![s] = NoEntry]
        /\ timer' = [timer EXCEPT ![e] = FALSE]
        /\ cleaning' = [cleaning EXCEPT ![e] = "service"]
        /\ task' = [task EXCEPT ![c] = e]
        /\ e # NoEntry
    BY <1>7 DEF Leave, s, e
  <2>2. RegistryTypeOK'
    <3>1. e \in 0 .. made /\ made \in Nat
      BY <1>2, <2>1, EntriesBounded DEF RegistryTypeOK, Entries
    <3>2. registry' \in [Sessions -> 0 .. made] /\ task' \in [Conns -> 0 .. made]
      <4>1. NoEntry \in 0 .. made
        BY <3>1 DEF NoEntry
      <4>2. \A t \in Sessions : registry'[t] \in 0 .. made
        BY <2>1, <4>1 DEF RegistryTypeOK
      <4>3. registry' \in [Sessions -> 0 .. made]
        BY <2>1, <4>2 DEF RegistryTypeOK
      <4>4. task' \in [Conns -> 0 .. made]
        BY <2>1, <3>1 DEF RegistryTypeOK
      <4> QED  BY <4>3, <4>4
    <3>3. \A t \in Sessions : registry'[t] # NoEntry => sessionOf[registry'[t]] = t
      BY <2>1 DEF RegistryTypeOK
    <3> QED  BY <1>1, <2>1, <3>2, <3>3 DEF RegistryTypeOK
  <2>3. \A x \in Entries : x # e => cleaning'[x] = cleaning[x] /\ listeners'[x] = listeners[x] /\ timer'[x] = timer[x]
    BY <1>1, <2>1 DEF RegistryTypeOK
  <2>4. \A t \in Sessions : registry'[t] = IF t = s THEN NoEntry ELSE registry[t]
    BY <2>1 DEF RegistryTypeOK
  <2>5. cleaning'[e] = "service" /\ listeners'[e] = {} /\ e \in Entries /\ s \in Sessions
    BY <1>1, <1>2, <1>7, <2>1 DEF RegistryTypeOK, e
  <2>6. \A x \in Entries : Registered(x)' => Registered(x) /\ x # e
    <3>1. \A x \in Entries : x # NoEntry
      BY EntriesBounded DEF Entries, NoEntry
    <3>2. \A t \in Sessions : registry'[t] # e
      BY <1>2, <2>1, <2>4, <2>5, RegisteredOnce
    <3> QED  BY <2>4, <3>1, <3>2 DEF Registered
  <2>7. Fresh' /\ UsedAreMade' /\ ShutIsCleaned'
    <3>1. Fresh'
      BY <1>1, <1>2, <2>1, <2>3, <2>5, EntriesBounded DEF Fresh, Entries, RegistryTypeOK
    <3>2. sessionOf[e] \in Sessions
      BY <1>4, <2>1, <2>5 DEF UsedAreMade
    <3>3. UsedAreMade'
      BY <1>1, <2>3, <3>2 DEF UsedAreMade
    <3>4. ShutIsCleaned'
      BY <1>1, <2>3, <2>5 DEF ShutIsCleaned
    <3> QED  BY <3>1, <3>3, <3>4
  <2>8. CleanedEntryUnused' /\ ReleasedEntryGuarded'
    BY <1>1, <2>3, <2>5, <2>6 DEF CleanedEntryUnused, ReleasedEntryGuarded
  <2>9. AttachedEntryLive'
    <3> SUFFICES ASSUME NEW d \in Conns, at'[d] \in {"ready", "leaving"}, selected'[d] # NoSession
                 PROVE  /\ active'[d] = registry'[selected'[d]]
                        /\ active'[d] # NoEntry
                        /\ d \in listeners'[active'[d]]
                        /\ cleaning'[active'[d]] = "no"
                        /\ sink'[active'[d]] = "open"
      BY DEF AttachedEntryLive
    <3>1. active[d] # e /\ selected[d] # s
      BY <1>1, <1>2, <1>5, <1>7, <2>1 DEF e
    <3> QED  BY <1>1, <1>5, <2>3, <2>4, <3>1
  <2> QED  BY <1>6, <2>2, <2>7, <2>8, <2>9
<1>8. CASE ~last
  <2> HIDE DEF s, e
  <2>1. UNCHANGED <<registry, timer, cleaning, task>>
    BY <1>8 DEF Leave, s, e
  <2>2. \A x \in Entries : listeners'[x] \subseteq listeners[x] /\ (listeners'[x] = {} => listeners[x] = {})
    BY <1>1, <1>8 DEF RegistryTypeOK, e, NoEntry, Entries
  <2>3. \A d \in Conns : d # c => \A x \in Entries : d \in listeners[x] => d \in listeners'[x]
    BY <1>1
  <2>4. RegistryTypeOK'
    BY <1>1, <2>1 DEF RegistryTypeOK
  <2>5. Fresh' /\ UsedAreMade' /\ ShutIsCleaned' /\ CleanedEntryUnused' /\ ReleasedEntryGuarded'
    BY <1>1, <2>1, <2>2 DEF Fresh, UsedAreMade, ShutIsCleaned, CleanedEntryUnused, ReleasedEntryGuarded, Registered
  <2>6. AttachedEntryLive'
    BY <1>1, <1>5, <2>1, <2>3 DEF AttachedEntryLive
  <2> QED  BY <1>6, <2>4, <2>5, <2>6
<1> QED  BY <1>7, <1>8

LEMMA CloseStep ==
  ASSUME RegInv, NEW c \in Conns, Close(c)
  PROVE  RegInv'
<1> DEFINE e == IF selected[c] = NoSession THEN NoEntry ELSE registry[selected[c]]
<1> USE DEF RegInv
<1>1. /\ at[c] = "ready"
      /\ at' = [at EXCEPT ![c] = "gone"]
      /\ listeners' = [x \in Entries |-> IF x = e THEN listeners[x] \ {c} ELSE listeners[x]]
      /\ timer' = [x \in Entries |-> timer[x] \/ (x = e /\ listeners[e] \subseteq {c})]
      /\ UNCHANGED <<registry, made, sessionOf, callbacks, runner, sink, sinkFn, cleaning,
                     selected, active, target, task, record>>
  BY DEF Close, svcVars, regVars
<1> HIDE DEF e
<1>2. RegistryTypeOK'
  BY <1>1 DEF RegistryTypeOK
<1>3. RoomLeft'
  BY <1>1, RoomKept DEF Busy, RegistryTypeOK
<1>4. Fresh' /\ UsedAreMade' /\ ShutIsCleaned' /\ CleanedEntryUnused'
  <2>1. e \in Entries => sessionOf[e] \in Sessions
    <3>1. \A x \in Entries : x # NoEntry
      BY EntriesBounded DEF Entries, NoEntry
    <3> QED  BY <3>1 DEF RegistryTypeOK, e
  <2>2. UsedAreMade'
    BY <1>1, <2>1 DEF UsedAreMade
  <2> QED  BY <1>1, <2>2 DEF Fresh, ShutIsCleaned, CleanedEntryUnused, Registered
<1>5. ReleasedEntryGuarded'
  <2>1. \A x \in Entries : (timer[x] => timer'[x]) /\ (listeners'[x] = {} => listeners[x] = {} \/ timer'[x])
    BY <1>1
  <2> QED  BY <1>1, <2>1 DEF ReleasedEntryGuarded, Registered
<1>6. AttachedEntryLive'
  <2>1. \A d \in Conns : at'[d] \in {"ready", "leaving"} => at[d] \in {"ready", "leaving"} /\ d # c
    BY <1>1 DEF RegistryTypeOK
  <2>2. \A d \in Conns : d # c => \A x \in Entries : d \in listeners[x] => d \in listeners'[x]
    BY <1>1
  <2> QED  BY <1>1, <2>1, <2>2, AttachedEntry DEF AttachedEntryLive
<1> QED  BY <1>2, <1>3, <1>4, <1>5, <1>6

LEMMA ArriveStep ==
  ASSUME RegInv, NEW c \in Conns, Arrive(c)
  PROVE  RegInv'
<1> USE DEF RegInv
<1>1. /\ at[c] = "moving"
      /\ at' = [at EXCEPT ![c] = "ready"]
      /\ selected' = [selected EXCEPT ![c] = target[c]]
      /\ target' = [target EXCEPT ![c] = NoSession]
      /\ task' = [task EXCEPT ![c] = NoEntry]
      /\ UNCHANGED <<callbacks, runner, sinkFn, cleaning, record>>
  BY DEF Arrive
<1>2. \A d \in Conns : d # c =>
        at'[d] = at[d] /\ selected'[d] = selected[d] /\ target'[d] = target[d] /\ task'[d] = task[d]
  BY <1>1 DEF RegistryTypeOK
<1>3. at'[c] = "ready" /\ selected'[c] = target[c]
  BY <1>1 DEF RegistryTypeOK
<1>4. CASE target[c] = NoSession
  <2>1. UNCHANGED <<registry, made, sessionOf, listeners, sink, timer>> /\ active' = [active EXCEPT ![c] = NoEntry]
    BY <1>4 DEF Arrive, regVars
  <2>2. RegistryTypeOK'
    <3>1. active' \in [Conns -> 0 .. made] /\ task' \in [Conns -> 0 .. made]
      BY <1>1, <2>1 DEF RegistryTypeOK, NoEntry
    <3> QED  BY <1>1, <2>1, <3>1 DEF RegistryTypeOK
  <2>3. RoomLeft'
    BY <1>1, <2>1, RoomAfterArrive
  <2>4. Fresh' /\ UsedAreMade' /\ ShutIsCleaned' /\ CleanedEntryUnused' /\ ReleasedEntryGuarded'
    BY <1>1, <2>1 DEF Fresh, UsedAreMade, ShutIsCleaned, CleanedEntryUnused, ReleasedEntryGuarded, Registered
  <2>5. AttachedEntryLive'
    <3>1. \A d \in Conns : d # c => active'[d] = active[d]
      BY <2>1 DEF RegistryTypeOK
    <3> QED  BY <1>1, <1>2, <1>3, <1>4, <2>1, <3>1 DEF AttachedEntryLive
  <2> QED  BY <2>2, <2>3, <2>4, <2>5
<1>5. CASE target[c] # NoSession
  <2> DEFINE s == target[c]
             e == EntryFor(s)
  <2>1. s \in Sessions
    BY <1>5 DEF RegistryTypeOK
  <2>2. /\ Ensure(s)
        /\ listeners' = [listeners EXCEPT ![e] = @ \cup {c}]
        /\ sink' = [sink EXCEPT ![e] = IF @ = "none" THEN "open" ELSE @]
        /\ timer' = [timer EXCEPT ![e] = FALSE]
        /\ active' = [active EXCEPT ![c] = e]
    BY <1>5 DEF Arrive, Attach
  <2> HIDE DEF s, e
  <2>3. made' \in {made, made + 1}
    BY <2>2 DEF Ensure, regVars
  <2>4. RoomLeft' /\ made < MaxEntries
    BY <1>1, <2>3, RoomAfterArrive
  <2>5. /\ made' \in 0 .. MaxEntries /\ made' \in {made, made + 1}
        /\ registry' \in [Sessions -> 0 .. made']
        /\ sessionOf' \in [Entries -> Sessions \cup {NoSession}]
        /\ \A t \in Sessions : registry'[t] # NoEntry => sessionOf'[registry'[t]] = t
        /\ \A t \in Sessions : t # s => registry'[t] = registry[t]
        /\ e \in Entries /\ e <= made' /\ registry'[s] = e
        /\ registry[s] # NoEntry => registry'[s] = registry[s]
        /\ registry[s] = NoEntry => e > made
        /\ \A x \in Entries : sessionOf[x] \in Sessions => sessionOf'[x] \in Sessions
    BY <2>1, <2>2, <2>4, EnsureMakes DEF e
  <2>6. RegistryTypeOK'
    <3>1. active' \in [Conns -> 0 .. made'] /\ task' \in [Conns -> 0 .. made']
      BY <1>1, <2>2, <2>5, EntriesBounded DEF RegistryTypeOK, Entries, NoEntry
    <3>2. listeners' \in [Entries -> SUBSET Conns] /\ timer' \in [Entries -> BOOLEAN]
      BY <2>2 DEF RegistryTypeOK
    <3>3. sink' \in [Entries -> {"none", "open", "shut"}]
      BY <2>2 DEF RegistryTypeOK
    <3>4. /\ at' \in [Conns -> {"ready", "leaving", "moving", "gone"}]
          /\ selected' \in [Conns -> Sessions \cup {NoSession}]
          /\ target' \in [Conns -> Sessions \cup {NoSession}]
      BY <1>1 DEF RegistryTypeOK
    <3> QED  BY <1>1, <2>5, <3>1, <3>2, <3>3, <3>4 DEF RegistryTypeOK
  <2>7. /\ \A x \in Entries : x # e => listeners'[x] = listeners[x] /\ sink'[x] = sink[x] /\ timer'[x] = timer[x]
        /\ listeners'[e] = listeners[e] \cup {c}
        /\ sink'[e] = IF sink[e] = "none" THEN "open" ELSE sink[e]
    BY <2>2, <2>5 DEF RegistryTypeOK
  \* The entry is registered, or was not in use.
  <2>8. cleaning[e] = "no" /\ sink[e] # "shut"
    <3>1. CASE registry[s] # NoEntry
      <4>1. Registered(e)
        BY <2>1, <2>5, <3>1 DEF Registered
      <4> QED  BY <2>5, <4>1 DEF CleanedEntryUnused, ShutIsCleaned
    <3>2. CASE registry[s] = NoEntry
      BY <2>5, <3>2 DEF Fresh
    <3> QED  BY <3>1, <3>2
  <2>9. sink'[e] = "open"
    BY <2>5, <2>7, <2>8 DEF RegistryTypeOK
  <2>10. \A x \in Entries : Registered(x)' => Registered(x) \/ x = e
    BY <2>1, <2>5 DEF Registered
  <2>11. Fresh'
    <3> SUFFICES ASSUME NEW x \in Entries, x > made'
                 PROVE  cleaning'[x] = "no" /\ sink'[x] = "none"
      BY DEF Fresh
    <3>1. x > made /\ x # e
      BY <2>5, EntriesBounded DEF RegistryTypeOK, Entries
    <3> QED  BY <1>1, <2>7, <3>1 DEF Fresh
  <2>12. ShutIsCleaned' /\ ReleasedEntryGuarded' /\ UsedAreMade'
    <3>1. sessionOf'[e] \in Sessions
      <4>1. registry'[s] # NoEntry
        BY <2>5, EntriesBounded DEF Entries, NoEntry
      <4> QED  BY <2>1, <2>5, <4>1
    <3> QED  BY <1>1, <2>5, <2>7, <2>9, <2>10, <3>1 DEF ShutIsCleaned, ReleasedEntryGuarded, UsedAreMade
  <2>13. CleanedEntryUnused'
    BY <1>1, <2>7, <2>8, <2>10 DEF CleanedEntryUnused
  <2>14. AttachedEntryLive'
    <3> SUFFICES ASSUME NEW d \in Conns, at'[d] \in {"ready", "leaving"}, selected'[d] # NoSession
                 PROVE  /\ active'[d] = registry'[selected'[d]]
                        /\ active'[d] # NoEntry
                        /\ d \in listeners'[active'[d]]
                        /\ cleaning'[active'[d]] = "no"
                        /\ sink'[active'[d]] = "open"
      BY DEF AttachedEntryLive
    <3>1. CASE d = c
      <4>1. active'[c] = e
        BY <2>2 DEF RegistryTypeOK
      <4>2. e # NoEntry
        BY <2>5, EntriesBounded DEF Entries, NoEntry
      <4> QED  BY <1>1, <1>3, <2>5, <2>7, <2>8, <2>9, <3>1, <4>1, <4>2 DEF s
    <3>2. CASE d # c
      <4>1. active'[d] = active[d]
        BY <2>2, <3>2 DEF RegistryTypeOK
      <4>2. /\ selected[d] \in Sessions /\ active[d] \in Entries
            /\ registry[selected[d]] = active[d] /\ active[d] # NoEntry
            /\ cleaning[active[d]] = "no" /\ sink[active[d]] = "open" /\ d \in listeners[active[d]]
        BY <1>2, <3>2, AttachedEntry DEF AttachedEntryLive
      <4>3. registry'[selected[d]] = active[d]
        BY <2>5, <4>2
      <4> QED  BY <1>1, <1>2, <2>7, <2>9, <3>2, <4>1, <4>2, <4>3
    <3> QED  BY <3>1, <3>2
  <2> QED  BY <2>4, <2>6, <2>11, <2>12, <2>13, <2>14
<1> QED  BY <1>4, <1>5

-----------------------------------------------------------------------------
(* The timer, the cleanup and the prompts of an entry.                     *)

LEMMA TimerFiresStep ==
  ASSUME RegInv, NEW e \in Entries, TimerFires(e)
  PROVE  RegInv'
<1> USE DEF RegInv
<1>1. /\ timer' = [timer EXCEPT ![e] = FALSE]
      /\ callbacks' = [callbacks EXCEPT ![e] = @ + 1]
      /\ UNCHANGED <<registry, made, sessionOf, listeners, runner, sink, sinkFn, cleaning,
                     at, selected, active, target, task, record>>
  BY DEF TimerFires, regVars, svcVars, connVars
<1>2. RegistryTypeOK' /\ RoomLeft'
  BY <1>1, RoomKept DEF RegistryTypeOK, Busy
<1>3. Fresh' /\ UsedAreMade' /\ ShutIsCleaned' /\ CleanedEntryUnused' /\ AttachedEntryLive'
  <2>1. UsedAreMade'
    BY <1>1 DEF UsedAreMade, TimerFires, RegistryTypeOK
  <2> QED  BY <1>1, <2>1 DEF Fresh, ShutIsCleaned, CleanedEntryUnused, AttachedEntryLive, Registered
<1>4. ReleasedEntryGuarded'
  <2>1. \A x \in Entries : (timer[x] \/ callbacks[x] > 0) => timer'[x] \/ callbacks'[x] > 0
    BY <1>1 DEF RegistryTypeOK
  <2> QED  BY <1>1, <2>1 DEF ReleasedEntryGuarded, Registered
<1> QED  BY <1>2, <1>3, <1>4

LEMMA CleanupIfOrphanedStep ==
  ASSUME RegInv, NEW e \in Entries, CleanupIfOrphaned(e)
  PROVE  RegInv'
<1> DEFINE s == sessionOf[e]
<1> USE DEF RegInv
<1>1. /\ callbacks[e] > 0
      /\ callbacks' = [callbacks EXCEPT ![e] = @ - 1]
      /\ UNCHANGED <<made, sessionOf, listeners, timer, runner, sink, sinkFn,
                     at, selected, active, target, task, record>>
  BY DEF CleanupIfOrphaned, svcVars, connVars
<1>2. /\ callbacks' \in [Entries -> Nat]
      /\ \A x \in Entries : x # e => callbacks'[x] = callbacks[x]
  BY <1>1 DEF RegistryTypeOK
<1>3. RoomLeft'
  BY <1>1, RoomKept DEF Busy
<1>4. CASE registry[s] = e /\ listeners[e] = {}
  <2>1. registry' = [registry EXCEPT ![s] = NoEntry] /\ cleaning' = [cleaning EXCEPT ![e] = "sink"]
    BY <1>4 DEF CleanupIfOrphaned
  <2> HIDE DEF s
  <2>2. \A t \in Sessions : registry'[t] # NoEntry => registry'[t] = registry[t] /\ t # s
    BY <2>1 DEF RegistryTypeOK
  <2>3. RegistryTypeOK'
    <3>1. registry' \in [Sessions -> 0 .. made]
      <4>1. NoEntry \in 0 .. made
        BY EntriesBounded DEF RegistryTypeOK, NoEntry
      <4> QED  BY <2>1, <4>1 DEF RegistryTypeOK
    <3>2. \A t \in Sessions : registry'[t] # NoEntry => sessionOf[registry'[t]] = t
      BY <2>2 DEF RegistryTypeOK
    <3> QED  BY <1>1, <1>2, <2>1, <3>1, <3>2 DEF RegistryTypeOK
  <2>4. /\ \A x \in Entries : x # e => cleaning'[x] = cleaning[x]
        /\ cleaning'[e] = "sink"
    BY <2>1 DEF RegistryTypeOK
  <2>5. \A x \in Entries : Registered(x)' => Registered(x) /\ x # e
    <3>1. \A x \in Entries : x # NoEntry
      BY EntriesBounded DEF Entries, NoEntry
    <3>2. \A t \in Sessions : registry[t] = e => t = s
      BY <3>1 DEF RegistryTypeOK, s
    <3> QED  BY <2>2, <3>1, <3>2 DEF Registered
  <2>6. e <= made
    <3>1. \E t \in Sessions : registry[t] = e
      BY <1>1, <1>4 DEF UsedAreMade, s
    <3> QED  BY <3>1, RegisteredOnce, EntriesBounded DEF Entries, NoEntry
  <2>7. Fresh' /\ UsedAreMade' /\ ShutIsCleaned'
    BY <1>1, <2>4, <2>6, EntriesBounded DEF Fresh, UsedAreMade, ShutIsCleaned, Entries, RegistryTypeOK
  <2>8. CleanedEntryUnused'
    BY <1>1, <1>4, <2>4, <2>5 DEF CleanedEntryUnused
  <2>9. ReleasedEntryGuarded'
    BY <1>1, <1>2, <2>5 DEF ReleasedEntryGuarded
  <2>10. AttachedEntryLive'
    <3>1. \A d \in Conns : (at[d] \in {"ready", "leaving"} /\ selected[d] # NoSession) =>
            /\ active[d] # e /\ active[d] \in Entries /\ registry'[selected[d]] = active[d]
      <4>1. SUFFICES ASSUME NEW d \in Conns, at[d] \in {"ready", "leaving"}, selected[d] # NoSession
                     PROVE  active[d] # e /\ active[d] \in Entries /\ registry'[selected[d]] = active[d]
        OBVIOUS
      <4>2. /\ selected[d] \in Sessions /\ active[d] \in Entries
            /\ registry[selected[d]] = active[d] /\ d \in listeners[active[d]]
        BY <4>1, AttachedEntry
      <4>3. active[d] # e /\ selected[d] # s
        BY <1>4, <4>2
      <4> QED  BY <2>1, <4>2, <4>3 DEF RegistryTypeOK
    <3> QED  BY <1>1, <2>4, <3>1 DEF AttachedEntryLive
  <2> QED  BY <1>3, <2>3, <2>7, <2>8, <2>9, <2>10
<1>5. CASE ~(registry[s] = e /\ listeners[e] = {})
  <2>1. UNCHANGED <<registry, cleaning>>
    BY <1>5 DEF CleanupIfOrphaned
  <2>2. RegistryTypeOK' /\ Fresh' /\ UsedAreMade' /\ ShutIsCleaned' /\ CleanedEntryUnused' /\ AttachedEntryLive'
    BY <1>1, <1>2, <2>1
    DEF RegistryTypeOK, Fresh, UsedAreMade, ShutIsCleaned, CleanedEntryUnused, AttachedEntryLive, Registered
  <2>3. ReleasedEntryGuarded'
    <3>1. Registered(e) => listeners[e] # {}
      BY <1>5, RegisteredOnce
    <3> QED  BY <1>1, <1>2, <2>1, <3>1 DEF ReleasedEntryGuarded, Registered
  <2> QED  BY <1>3, <2>2, <2>3
<1> QED  BY <1>4, <1>5

\* The cleanup goes on: out of "no" it does not come, and the command is over
\* when it reaches onCleanup.
LEMMA CleanupGoesOn ==
  ASSUME RegInv, NEW e \in Entries, NEW n \in {"service", "wait", "get", "put", "done"},
         cleaning[e] # "no", cleaning' = [cleaning EXCEPT ![e] = n],
         UNCHANGED <<regVars, lifeVars, connVars>>,
         runner' \in [Entries -> {"none", "running", "closing"}],
         \A x \in Entries : runner'[x] # runner[x] => x = e,
         n \in {"get", "put", "done"} => runner'[e] = "none",
         sink' \in [Entries -> {"none", "open", "shut"}],
         \A x \in Entries : sink'[x] # sink[x] => x = e,
         sinkFn' \in [Entries -> Conns \cup {NoConn}],
         record' \in [Sessions -> {"absent", "stored", "deleted"}]
  PROVE  RegInv'
<1> USE DEF RegInv, regVars, lifeVars, connVars
<1>1. RegistryTypeOK' /\ RoomLeft'
  BY RoomKept DEF RegistryTypeOK, Busy
<1>2. /\ \A x \in Entries : x # e => cleaning'[x] = cleaning[x]
      /\ cleaning'[e] = n /\ n # "no"
  BY DEF RegistryTypeOK
<1>3. ~Registered(e)
  BY DEF CleanedEntryUnused
<1>4. e <= made
  BY EntriesBounded DEF Fresh, RegistryTypeOK, Entries
<1>5. Fresh'
  BY <1>2, <1>4, EntriesBounded DEF Fresh, RegistryTypeOK, Entries
<1>6. ShutIsCleaned' /\ CleanedEntryUnused'
  BY <1>2 DEF ShutIsCleaned, CleanedEntryUnused, Registered
<1>7. ReleasedEntryGuarded'
  BY <1>3 DEF ReleasedEntryGuarded, Registered
<1>8. UsedAreMade'
  <2>1. sessionOf[e] \in Sessions
    BY DEF UsedAreMade
  <2> QED  BY <1>2, <2>1 DEF UsedAreMade
<1>9. AttachedEntryLive'
  <2>1. \A d \in Conns : (at[d] \in {"ready", "leaving"} /\ selected[d] # NoSession) =>
          active[d] # e /\ active[d] \in Entries
    BY AttachedEntry
  <2> QED  BY <1>2, <2>1 DEF AttachedEntryLive
<1> QED  BY <1>1, <1>5, <1>6, <1>7, <1>8, <1>9

LEMMA CleanupSteps ==
  ASSUME RegInv, NEW e \in Entries,
         ShutdownSink(e) \/ ServiceCleanup(e) \/ CleanupReturns(e) \/ OnCleanupGet(e) \/ OnCleanupPut(e)
  PROVE  RegInv'
<1> USE DEF RegInv, svcVars
<1>1. CASE ShutdownSink(e)
  <2>1. sink' \in [Entries -> {"none", "open", "shut"}] /\ sinkFn' \in [Entries -> Conns \cup {NoConn}]
    BY <1>1 DEF ShutdownSink, RegistryTypeOK
  <2> QED  BY <1>1, <2>1, CleanupGoesOn DEF ShutdownSink, RegistryTypeOK
<1>2. CASE ServiceCleanup(e)
  <2>1. runner' \in [Entries -> {"none", "running", "closing"}]
    BY <1>2 DEF ServiceCleanup, RegistryTypeOK
  <2> QED  BY <1>2, <2>1, CleanupGoesOn DEF ServiceCleanup, RegistryTypeOK
<1>3. CASE CleanupReturns(e)
  BY <1>3, CleanupGoesOn DEF CleanupReturns, RegistryTypeOK
<1>4. CASE OnCleanupGet(e)
  <2>1. PICK n \in {"put", "done"} : cleaning' = [cleaning EXCEPT ![e] = n]
    BY <1>4 DEF OnCleanupGet
  <2>2. runner[e] = "none"
    BY <1>4 DEF OnCleanupGet, CleanedEntryUnused
  <2> QED  BY <1>4, <2>1, <2>2, CleanupGoesOn DEF OnCleanupGet, RegistryTypeOK
<1>5. CASE OnCleanupPut(e)
  <2>1. record' \in [Sessions -> {"absent", "stored", "deleted"}]
    BY <1>5 DEF OnCleanupPut, RegistryTypeOK
  <2>2. runner[e] = "none"
    BY <1>5 DEF OnCleanupPut, CleanedEntryUnused
  <2> QED  BY <1>5, <2>1, <2>2, CleanupGoesOn DEF OnCleanupPut, RegistryTypeOK
<1> QED  BY <1>1, <1>2, <1>3, <1>4, <1>5

\* What Spare is for: the entry a prompt makes leaves one to every switch.
LEMMA SpareLeft ==
  ASSUME RegistryTypeOK, Spare, UNCHANGED at, made' = made + 1
  PROVE  RoomLeft' /\ made < MaxEntries
<1>1. Busy' = Busy
  BY DEF Busy
<1>2. Cardinality(Busy) < MaxEntries - made
  BY DEF Spare, Busy
<1> QED  BY <1>1, <1>2, BusyFinite, EntriesBounded DEF RoomLeft, RegistryTypeOK

LEMMA PromptStep ==
  ASSUME RegInv, NEW e \in Entries, Prompt(e)
  PROVE  RegInv'
<1> USE DEF RegInv
<1>1. sink[e] = "open" /\ ProcessPrompt(e) /\ UNCHANGED <<lifeVars, svcVars, cleaning, connVars, record>>
  BY DEF Prompt
<1> DEFINE s == sessionOf[e]
<1>2. s \in Sessions
  BY <1>1 DEF UsedAreMade
<1>3. CASE UNCHANGED regVars
  BY <1>1, <1>3, RecordStep DEF RegistryTypeOK
<1>4. CASE registry[s] = NoEntry /\ Spare /\ Ensure(s)
  <2> HIDE DEF s
  <2>1. made' = made + 1
    BY <1>4 DEF Ensure
  <2>2. RoomLeft' /\ made < MaxEntries
    BY <1>1, <1>4, <2>1, SpareLeft DEF connVars
  <2>3. /\ made' \in 0 .. MaxEntries
        /\ registry' \in [Sessions -> 0 .. made']
        /\ sessionOf' \in [Entries -> Sessions \cup {NoSession}]
        /\ \A t \in Sessions : registry'[t] # NoEntry => sessionOf'[registry'[t]] = t
        /\ \A t \in Sessions : t # s => registry'[t] = registry[t]
        /\ EntryFor(s) \in Entries /\ registry'[s] = EntryFor(s)
        /\ EntryFor(s) > made
        /\ \A x \in Entries : sessionOf[x] \in Sessions => sessionOf'[x] \in Sessions
    BY <1>2, <1>4, <2>2, EnsureMakes
  <2> DEFINE n == EntryFor(s)
  <2> HIDE DEF n
  <2>4. cleaning[n] = "no" /\ sink[n] = "none"
    BY <2>3 DEF Fresh, n
  <2>5. \A x \in Entries : Registered(x)' => Registered(x) \/ x = n
    BY <1>2, <2>3 DEF Registered, n
  <2>6. RegistryTypeOK'
    <3>1. active' \in [Conns -> 0 .. made'] /\ task' \in [Conns -> 0 .. made']
      BY <1>1, <2>1, EntriesBounded DEF RegistryTypeOK, connVars
    <3> QED  BY <1>1, <2>3, <3>1 DEF RegistryTypeOK, lifeVars, svcVars, connVars
  <2>7. Fresh'
    BY <1>1, <2>1, EntriesBounded DEF Fresh, RegistryTypeOK, Entries, svcVars
  <2>8. UsedAreMade' /\ ShutIsCleaned'
    BY <1>1, <2>3 DEF UsedAreMade, ShutIsCleaned, svcVars, lifeVars
  <2>9. CleanedEntryUnused' /\ ReleasedEntryGuarded'
    BY <1>1, <2>4, <2>5 DEF CleanedEntryUnused, ReleasedEntryGuarded, svcVars, lifeVars
  <2>10. AttachedEntryLive'
    <3>1. \A d \in Conns : (at[d] \in {"ready", "leaving"} /\ selected[d] # NoSession) =>
            registry'[selected[d]] = active[d]
      <4>1. SUFFICES ASSUME NEW d \in Conns, at[d] \in {"ready", "leaving"}, selected[d] # NoSession
                     PROVE  registry'[selected[d]] = active[d]
        OBVIOUS
      <4>2. selected[d] \in Sessions /\ registry[selected[d]] = active[d] /\ active[d] # NoEntry
        BY <4>1, AttachedEntry DEF AttachedEntryLive
      <4> QED  BY <1>4, <2>3, <4>2
    <3> QED  BY <1>1, <3>1 DEF AttachedEntryLive, svcVars, lifeVars, connVars
  <2> QED  BY <2>2, <2>6, <2>7, <2>8, <2>9, <2>10
<1> QED  BY <1>1, <1>3, <1>4 DEF ProcessPrompt

-----------------------------------------------------------------------------

\* Every step of the connections, the timers, the cleanups and the commands
\* keeps the invariant.
LEMMA RegistryStep == RegInv /\ [RegistryNext]_registryVars => RegInv'
<1> SUFFICES ASSUME RegInv, [RegistryNext]_registryVars PROVE RegInv'
  OBVIOUS
<1>1. CASE UNCHANGED registryVars
  BY <1>1, RecordStep DEF registryVars, RegInv, RegistryTypeOK
<1>2. ASSUME NEW c \in Conns, Handle(c) PROVE RegInv'
  BY <1>2, CreateStep, ResumeStep, ExecStep, LeaveStep, ArriveStep, CloseStep, RequestStep, DeleteStep
  DEF Handle
<1>3. ASSUME NEW e \in Entries, TimerFires(e) \/ CleanupStep(e) \/ RunnerEnds(e) \/ Prompt(e) PROVE RegInv'
  BY <1>3, TimerFiresStep, CleanupIfOrphanedStep, CleanupSteps, RunnerEndsStep, PromptStep DEF CleanupStep
<1> QED  BY <1>1, <1>2, <1>3 DEF RegistryNext

\* What EntryRegistry and the connections' handlers keep of entries, timers and
\* runtimes between any two of their steps.
THEOREM RegistryInvariance == RegistrySpec => []RegInv
<1>1. RegistryInit => RegInv
  BY InitRegInv
<1>2. RegInv /\ [RegistryNext]_registryVars => RegInv'
  BY RegistryStep
<1> QED  BY <1>1, <1>2, PTL DEF RegistrySpec

\* EntryRegistry.Release and cleanupIfOrphaned never take the runtime from
\* under a connection: whatever timers are late and whoever else comes and
\* goes, a connection at rest in a session holds the registered entry.
THEOREM AttachedStaysLive == RegistrySpec => []AttachedEntryLive
<1>1. RegInv => AttachedEntryLive
  BY DEF RegInv
<1> QED  BY <1>1, RegistryInvariance, PTL

\* What Release and the timer tear down is out of the map and nobody's, and
\* Service.Cleanup has waited for its command before onCleanup saves the record.
THEOREM CleanupIsAlone == RegistrySpec => []CleanedEntryUnused
<1>1. RegInv => CleanedEntryUnused
  BY DEF RegInv
<1> QED  BY <1>1, RegistryInvariance, PTL

\* An entry every connection dropped from has an armed release timer or a
\* callback of one on its way.
THEOREM LeftHasTimer == RegistrySpec => []ReleasedEntryGuarded
<1>1. RegInv => ReleasedEntryGuarded
  BY DEF RegInv
<1> QED  BY <1>1, RegistryInvariance, PTL

=============================================================================
