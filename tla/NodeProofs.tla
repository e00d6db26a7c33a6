----------------------------- MODULE NodeProofs -----------------------------
(***************************************************************************)
(* Proofs about what the coordinator knows of a machine: its row and its   *)
(* entry in memory (NodeRegistry), and its id and its session              *)
(* (NodeIdentity), for any machines, any flows and any bounds.             *)
(***************************************************************************)
EXTENDS NodeRegistry, NodeIdentity, TLAPS

-----------------------------------------------------------------------------
(* The row and the entry.                                                  *)

\* What waits for a row, or was read from one, is about a machine that has one.
RowsStay ==
    /\ \A m \in Machines :
         m \in register \/ report[m].at # "none" \/ toggle[m].at # "none"
             \/ sync.read[m] # NoEntry => row[m] # NoEntry
    /\ sync.left \subseteq Known(row)

RegistryInv == RegistryTypeOK /\ RowsStay

LEMMA EntriesAreEntries ==
    /\ NoEntry \notin Entry
    /\ \A a, b, c \in BOOLEAN : [conn |-> a, avail |-> b, new |-> c] \in Entry
    /\ \A e \in Entry, b \in BOOLEAN : /\ [e EXCEPT !.conn = b] \in Entry
                                      /\ [e EXCEPT !.avail = b] \in Entry
                                      /\ [e EXCEPT !.new = b] \in Entry
                                      /\ [e EXCEPT !.conn = b, !.new = b] \in Entry
BY RegistryAssumption DEF Entry

LEMMA WrittenIsKnown ==
    ASSUME NEW f \in [Machines -> Rows], NEW m \in Machines, NEW e \in Entry
    PROVE  /\ [f EXCEPT ![m] = e] \in [Machines -> Rows]
           /\ Known([f EXCEPT ![m] = e]) = Known(f) \cup {m}
           /\ f[m] # NoEntry => Known([f EXCEPT ![m] = e]) = Known(f)
BY EntriesAreEntries DEF Rows, Known

LEMMA RegistryAtFirst == RegistryInit => RegistryInv
<1> SUFFICES ASSUME RegistryInit
             PROVE  RegistryInv
  OBVIOUS
<1>1. /\ row = Nothing /\ mem = Nothing /\ sync = Asleep
      /\ report = [m \in Machines |-> NotWaiting] /\ toggle = [m \in Machines |-> NotWaiting]
  BY DEF RegistryInit
<1>2. Nothing \in [Machines -> Rows] /\ Known(Nothing) = {}
  BY DEF Nothing, Rows, Known
<1>3. Asleep \in Passes /\ Asleep.left = {} /\ Asleep.read = Nothing
  BY <1>2 DEF Asleep, Passes
<1>4. NotWaiting \in Waiting /\ NotWaiting.at = "none"
  BY DEF NotWaiting, Waiting
<1>5. RowsStay
  BY <1>1, <1>2, <1>3, <1>4 DEF RegistryInit, RowsStay, Nothing
<1>6. /\ report \in [Machines -> Waiting] /\ toggle \in [Machines -> Waiting]
      /\ wish \in [Machines -> BOOLEAN] /\ undone \in [Machines -> BOOLEAN]
      /\ events \in 0..RegistryEvents
  BY <1>1, <1>4, RegistryAssumption DEF RegistryInit
<1>7. row \in [Machines -> Rows] /\ mem \in [Machines -> Rows] /\ Known(mem) \subseteq Known(row)
  BY <1>1, <1>2
<1>8. QED
  BY <1>1, <1>3, <1>5, <1>6, <1>7 DEF RegistryInit, RegistryInv, RegistryTypeOK

LEMMA RegistryOutside ==
    ASSUME RegistryInv,
           (\E m \in Machines : Power(m) \/ Ages(m)) \/ Newcomer \/ Boot \/ Crash
    PROVE  RegistryInv'
<1> USE RegistryAssumption DEF RegistryInv, RegistryTypeOK, RowsStay, Known, handlerVars
<1>1. ASSUME NEW m \in Machines, Power(m)
      PROVE  RegistryInv'
  BY <1>1 DEF Power
<1>2. ASSUME NEW m \in Machines, Ages(m)
      PROVE  RegistryInv'
  <2>1. /\ row' = [row EXCEPT ![m] = IF row[m] = NoEntry THEN row[m]
                                                      ELSE [row[m] EXCEPT !.new = FALSE]]
        /\ mem' = [mem EXCEPT ![m] = IF mem[m] = NoEntry THEN mem[m]
                                                      ELSE [mem[m] EXCEPT !.new = FALSE]]
        /\ UNCHANGED <<up, alive, register, report, toggle, sync, grown, wish, undone, events>>
    BY <1>2 DEF Ages
  <2>2. row' \in [Machines -> Rows] /\ mem' \in [Machines -> Rows]
    BY <2>1 DEF Rows, Entry
  <2>3. /\ \A k \in Machines : row'[k] = NoEntry <=> row[k] = NoEntry
        /\ \A k \in Machines : mem'[k] = NoEntry <=> mem[k] = NoEntry
    BY <2>1 DEF Rows, Entry
  <2>4. QED
    BY <2>1, <2>2, <2>3
<1>3. CASE Newcomer
  BY <1>3 DEF Newcomer, Event
<1>4. CASE Boot
  BY <1>4 DEF Boot, Asleep, Passes, Nothing, Rows
<1>5. CASE Crash
  <2>1. /\ mem' = Nothing /\ register' = {} /\ sync' = Asleep /\ row' = row
        /\ report' = [k \in Machines |-> NotWaiting] /\ toggle' = [k \in Machines |-> NotWaiting]
        /\ up' = FALSE /\ grown' = FALSE /\ alive' = alive
    BY <1>5 DEF Crash
  <2>2. events' \in 0..RegistryEvents
    BY <1>5 DEF Crash, Event
  <2>3. /\ wish' = [k \in Machines |-> IF toggle[k].at = "write" THEN toggle[k].avail
                                                                ELSE wish[k]]
        /\ undone' = [k \in Machines |-> undone[k] \/ (row[k] # NoEntry
                                                         /\ row[k].avail # wish'[k])]
    BY <1>5 DEF Crash
  <2>4. wish' \in [Machines -> BOOLEAN] /\ undone' \in [Machines -> BOOLEAN]
    BY <2>3 DEF Waiting
  <2>5. Nothing \in [Machines -> Rows] /\ Known(Nothing) = {}
    BY DEF Nothing, Rows
  <2>6. Asleep \in Passes /\ Asleep.left = {} /\ \A m \in Machines : Asleep.read[m] = NoEntry
    BY <2>5 DEF Asleep, Passes, Nothing
  <2>7. NotWaiting \in Waiting /\ NotWaiting.at = "none"
    BY DEF NotWaiting, Waiting
  <2>8. RowsStay'
    BY <2>1, <2>6, <2>7
  <2>9. report' \in [Machines -> Waiting] /\ toggle' \in [Machines -> Waiting]
    BY <2>1, <2>7
  <2>10. mem' \in [Machines -> Rows] /\ Known(mem') = {} /\ sync' \in Passes
    BY <2>1, <2>5, <2>6
  <2>11. QED
    BY <2>1, <2>2, <2>4, <2>8, <2>9, <2>10
<1>6. QED
  BY <1>1, <1>2, <1>3, <1>4, <1>5

LEMMA PutKeepsTheType ==
    ASSUME RegistryInv, NEW m \in Machines, NEW e \in Entry, row[m] # NoEntry, Put(m, e)
    PROVE  /\ mem' \in [Machines -> Rows] /\ grown' \in BOOLEAN
           /\ Known(mem') \subseteq Known(row)
BY DEF RegistryInv, RegistryTypeOK, Put, Known, Rows

\* A step that rewrites a row, keeps it.
LEMMA RegistryHandlers ==
    ASSUME RegistryInv, NEW m \in Machines, Register(m) \/ ToggleReads(m) \/ HandlerStep(m)
    PROVE  RegistryInv'
<1> USE RegistryAssumption DEF RegistryInv, RegistryTypeOK, RowsStay
<1>1. CASE Register(m)
  <2>1. events' \in 0..RegistryEvents
    BY <1>1 DEF Register, Event
  <2>2. row' \in [Machines -> Rows]
    BY <1>1, EntriesAreEntries, WrittenIsKnown DEF Register
  <2>3. Known(row') = Known(row) \cup {m}
    BY <1>1, EntriesAreEntries, WrittenIsKnown DEF Register
  <2>4. QED
    BY <1>1, <2>1, <2>2, <2>3 DEF Register, Known
<1>2. CASE RegisterCached(m)
  <2>1. [conn |-> TRUE, avail |-> FALSE, new |-> TRUE] \in Entry /\ row[m] # NoEntry
    BY <1>2 DEF RegisterCached, Entry
  <2>2. /\ mem' \in [Machines -> Rows] /\ grown' \in BOOLEAN
        /\ Known(mem') \subseteq Known(row)
    BY <1>2, <2>1, PutKeepsTheType DEF RegisterCached
  <2>3. QED
    BY <1>2, <2>2 DEF RegisterCached, Known
<1>3. CASE Beat(m)
  <2>1. mem[m] \in Entry /\ row[m] # NoEntry
    BY <1>3 DEF Beat, Rows, Known
  <2>2. mem' = [mem EXCEPT ![m] = [mem[m] EXCEPT !.conn = TRUE, !.new = TRUE]]
    BY <1>3, <2>1 DEF Beat, Entry
  <2>3. mem' \in [Machines -> Rows] /\ Known(mem') = Known(mem)
    <3>1. [mem[m] EXCEPT !.conn = TRUE, !.new = TRUE] \in Entry
      BY <2>1 DEF Entry
    <3>2. mem[m] # NoEntry
      BY <1>3 DEF Beat
    <3>3. QED
      BY <2>2, <3>1, <3>2, WrittenIsKnown
  <2>4. report' \in [Machines -> Waiting]
    BY <1>3 DEF Beat, NotWaiting, Waiting
  <2>5. QED
    BY <1>3, <2>1, <2>3, <2>4 DEF Beat, Known
<1>4. CASE BeatReads(m)
  <2>1. report' \in [Machines -> Waiting]
    BY <1>4 DEF BeatReads, Rows, Entry, Waiting
  <2>2. QED
    BY <1>4, <2>1 DEF BeatReads, Known
<1>5. CASE BeatLoads(m)
  <2>1. [conn |-> TRUE, avail |-> report[m].avail, new |-> TRUE] \in Entry /\ row[m] # NoEntry
    BY <1>5 DEF BeatLoads, Entry, Waiting
  <2>2. /\ mem' \in [Machines -> Rows] /\ grown' \in BOOLEAN
        /\ Known(mem') \subseteq Known(row)
    BY <1>5, <2>1, PutKeepsTheType DEF BeatLoads
  <2>3. report' \in [Machines -> Waiting]
    BY <1>5 DEF BeatLoads, NotWaiting, Waiting
  <2>4. QED
    BY <1>5, <2>1, <2>2, <2>3 DEF BeatLoads, Known
<1>6. CASE BeatSaved(m)
  <2>1. row[m] \in Entry
    BY <1>6 DEF BeatSaved, Rows
  <2>2. row' = [row EXCEPT ![m] = [row[m] EXCEPT !.conn = TRUE, !.new = TRUE]]
    BY <1>6, <2>1 DEF BeatSaved, Entry
  <2>3. row' \in [Machines -> Rows] /\ Known(row') = Known(row)
    BY <2>1, <2>2, EntriesAreEntries, WrittenIsKnown
  <2>4. report' \in [Machines -> Waiting]
    BY <1>6 DEF BeatSaved, NotWaiting, Waiting
  <2>5. QED
    BY <1>6, <2>3, <2>4 DEF BeatSaved, Known, NotWaiting
<1>7. CASE ToggleReads(m)
  <2>1. events' \in 0..RegistryEvents
    BY <1>7 DEF ToggleReads, Event
  <2>2. toggle' \in [Machines -> Waiting]
    BY <1>7 DEF ToggleReads, NotWaiting, Waiting
  <2>3. QED
    BY <1>7, <2>1, <2>2 DEF ToggleReads, Known
<1>8. CASE ToggleWrites(m)
  <2>1. row[m] \in Entry /\ toggle[m] \in Waiting
    BY <1>8 DEF ToggleWrites, Rows
  <2>2. row' = [row EXCEPT ![m] = [row[m] EXCEPT !.avail = toggle[m].avail]]
    BY <1>8 DEF ToggleWrites
  <2>3. row' \in [Machines -> Rows] /\ Known(row') = Known(row)
    <3>1. toggle[m].avail \in BOOLEAN
      BY <2>1 DEF Waiting
    <3>2. [row[m] EXCEPT !.avail = toggle[m].avail] \in Entry /\ row[m] # NoEntry
      BY <2>1, <3>1, EntriesAreEntries
    <3>3. QED
      BY <2>2, <3>2, WrittenIsKnown
  <2>4. toggle' \in [Machines -> Waiting] /\ \A k \in Machines : k # m => toggle'[k] = toggle[k]
    BY <1>8, <2>1 DEF ToggleWrites, Waiting
  <2>5. QED
    BY <1>8, <2>1, <2>3, <2>4 DEF ToggleWrites, Known
<1>9. CASE ToggleCached(m)
  <2>1. mem[m] # NoEntry => mem[m] \in Entry
    BY DEF Rows
  <2>2. toggle[m].avail \in BOOLEAN
    BY DEF Waiting
  <2>3. mem' \in [Machines -> Rows] /\ Known(mem') = Known(mem)
    <3>1. CASE mem[m] = NoEntry
      BY <1>9, <3>1 DEF ToggleCached
    <3>2. CASE mem[m] # NoEntry
      <4>1. mem' = [mem EXCEPT ![m] = [mem[m] EXCEPT !.avail = toggle[m].avail]]
        BY <1>9, <3>2 DEF ToggleCached
      <4>2. [mem[m] EXCEPT !.avail = toggle[m].avail] \in Entry
        BY <2>1, <2>2, <3>2, EntriesAreEntries
      <4>3. QED
        BY <3>2, <4>1, <4>2, WrittenIsKnown
    <3>3. QED
      BY <3>1, <3>2
  <2>4. /\ toggle' \in [Machines -> Waiting] /\ wish' \in [Machines -> BOOLEAN]
        /\ undone' \in [Machines -> BOOLEAN]
    BY <1>9, <2>2 DEF ToggleCached, NotWaiting, Waiting, OlderOnItsWay
  <2>5. QED
    BY <1>9, <2>3, <2>4 DEF ToggleCached, Known, NotWaiting
<1>10. QED
  BY <1>1, <1>2, <1>3, <1>4, <1>5, <1>6, <1>7, <1>8, <1>9 DEF HandlerStep, BeatStep, ToggleStep

LEMMA RegistrySync ==
    ASSUME RegistryInv, SyncStep
    PROVE  RegistryInv'
<1> USE RegistryAssumption DEF RegistryInv, RegistryTypeOK, RowsStay, handlerVars
<1>1. CASE PassBegins
  <2>1. sync' \in Passes
    BY <1>1 DEF PassBegins, Passes, Known, Nothing, Rows
  <2>2. QED
    BY <1>1, <2>1 DEF PassBegins, Known, Nothing
<1>2. CASE PassAborts
  BY <1>2 DEF PassAborts, Asleep, Passes, Nothing, Rows, Known
<1>3. CASE StaleRead
  <2>1. sync' \in Passes
    BY <1>3 DEF StaleRead, Passes, Known, Nothing, Rows
  <2>2. QED
    BY <1>3, <2>1 DEF StaleRead, Known, Nothing
<1>4. CASE LoadReads
  <2> DEFINE missing == {m \in Known(row) : row[m].conn /\ mem[m] = NoEntry}
  <2>1. sync' = [at |-> "put", left |-> missing,
                 read |-> [m \in Machines |-> IF m \in missing THEN row[m] ELSE NoEntry]]
    BY <1>4 DEF LoadReads
  <2>2. missing \subseteq Known(row) /\ missing \subseteq Machines
    BY DEF Known
  <2> HIDE DEF missing
  <2>3. sync' \in Passes
    BY <2>1, <2>2 DEF Passes, Rows
  <2>4. QED
    BY <1>4, <2>1, <2>2, <2>3 DEF LoadReads, Known
<1>5. CASE LoadPuts
  <2>1. mem' \in [Machines -> Rows]
    BY <1>5 DEF LoadPuts, Passes
  <2>2. Known(mem') \subseteq Known(row)
    BY <1>5 DEF LoadPuts, Known
  <2>3. sync' \in Passes /\ sync'.left = {} /\ \A m \in Machines : sync'.read[m] = NoEntry
    BY <1>5 DEF LoadPuts, Asleep, Passes, Nothing, Rows
  <2>4. QED
    BY <1>5, <2>1, <2>2, <2>3 DEF LoadPuts, Known
<1>6. ASSUME NEW m \in Machines, PushReads(m)
      PROVE  RegistryInv'
  <2>1. sync' = [sync EXCEPT !.left = sync.left \ {m}, !.read = [sync.read EXCEPT ![m] = mem[m]]]
    BY <1>6 DEF PushReads
  <2>2. sync' \in Passes
    BY <2>1 DEF Passes
  <2>3. sync'.left \subseteq sync.left
        /\ \A k \in Machines : sync'.read[k] = IF k = m THEN mem[m] ELSE sync.read[k]
    BY <2>1 DEF Passes
  <2>4. QED
    BY <1>6, <2>2, <2>3 DEF PushReads, Known
<1>7. ASSUME NEW m \in Machines, PushWrites(m)
      PROVE  RegistryInv'
  <2>1. sync.read[m] \in Rows
    BY DEF Passes
  <2>2. row' \in [Machines -> Rows] /\ Known(row') = Known(row)
    BY <1>7, <2>1 DEF PushWrites, Known
  <2>3. sync' \in Passes /\ sync'.left = sync.left /\ \A k \in Machines : sync'.read[k] = NoEntry
    BY <1>7 DEF PushWrites, Passes, Nothing, Rows
  <2>4. QED
    BY <1>7, <2>2, <2>3 DEF PushWrites, Known
<1>8. ASSUME NEW m \in Machines, MarkRow(m)
      PROVE  RegistryInv'
  <2>1. row[m] \in Entry
    BY <1>8 DEF MarkRow, Known, Rows
  <2>2. row' = [row EXCEPT ![m] = [row[m] EXCEPT !.conn = FALSE]]
    BY <1>8 DEF MarkRow
  <2>3. row' \in [Machines -> Rows] /\ Known(row') = Known(row) /\ row'[m] # NoEntry
    <3>1. [row[m] EXCEPT !.conn = FALSE] \in Entry
      BY <2>1 DEF Entry
    <3>2. row[m] # NoEntry /\ [row[m] EXCEPT !.conn = FALSE] # NoEntry
      BY <2>1, <3>1, EntriesAreEntries
    <3>3. QED
      BY <2>2, <3>1, <3>2, WrittenIsKnown
  <2>4. sync' = [sync EXCEPT !.at = "marked", !.read = [sync.read EXCEPT ![m] = row'[m]]]
    BY <1>8 DEF MarkRow
  <2>5. sync' \in Passes /\ sync'.left = sync.left
        /\ \A k \in Machines : k # m => sync'.read[k] = sync.read[k]
    BY <2>3, <2>4 DEF Passes
  <2>6. QED
    BY <1>8, <2>3, <2>5 DEF MarkRow, Known
<1>9. ASSUME NEW m \in Machines, MarkEntry(m)
      PROVE  RegistryInv'
  <2>1. mem[m] # NoEntry => mem[m] \in Entry
    BY DEF Rows
  <2>2. mem' \in [Machines -> Rows] /\ Known(mem') = Known(mem)
    BY <1>9, <2>1, EntriesAreEntries, WrittenIsKnown DEF MarkEntry
  <2>3. sync' \in Passes /\ sync'.left \subseteq sync.left
        /\ \A k \in Machines : sync'.read[k] = NoEntry
    BY <1>9 DEF MarkEntry, Passes, Nothing, Rows
  <2>4. QED
    BY <1>9, <2>2, <2>3 DEF MarkEntry, Known
<1>10. QED
  BY <1>1, <1>2, <1>3, <1>4, <1>5, <1>6, <1>7, <1>8, <1>9 DEF SyncStep

LEMMA RegistryKept == RegistryInv /\ [RegistryNext]_registryVars => RegistryInv'
<1> SUFFICES ASSUME RegistryInv, [RegistryNext]_registryVars
             PROVE  RegistryInv'
  OBVIOUS
<1>1. CASE Newcomer \/ Boot \/ Crash
  BY <1>1, RegistryOutside
<1>2. CASE SyncStep
  BY <1>2, RegistrySync
<1>3. ASSUME NEW m \in Machines,
             Power(m) \/ Ages(m) \/ Register(m) \/ ToggleReads(m) \/ HandlerStep(m)
      PROVE  RegistryInv'
  BY <1>3, RegistryOutside, RegistryHandlers
<1>4. CASE UNCHANGED registryVars
  BY <1>4 DEF registryVars, handlerVars, RegistryInv, RegistryTypeOK, RowsStay, Known
<1>5. QED
  BY <1>1, <1>2, <1>3, <1>4 DEF RegistryNext

\* Rows and entries have their types, and the memory holds no machine that the
\* database does not know (register_node, node_heartbeat, sync_nodes_with_db).
THEOREM RegistryTypeCorrect == RegistrySpec => []RegistryTypeOK
<1>1. RegistryInv => RegistryTypeOK
  BY DEF RegistryInv
<1>2. QED
  BY <1>1, RegistryAtFirst, RegistryKept, PTL DEF RegistrySpec

(* The switch.  What the memory will be made of - the row while there is no   *)
(* entry, what a heartbeat or the sync has read - fits the switch as well.   *)

Fits(m, avail) == avail = wish[m] \/ (toggle[m].at = "write" /\ avail = toggle[m].avail)

\* Whatever was undone: a switch that is half way is in the row if it cannot be in
\* the memory, a push needs an entry, and what is put was read.
HalfWay(m) ==
    /\ sync.at = "put" /\ m \in sync.left => sync.read[m] # NoEntry
    /\ toggle[m].at = "write" /\ mem[m] = NoEntry =>
         row[m].avail = toggle[m].avail \/ (m \in register /\ toggle[m].avail)
    /\ sync.at = "pushing" /\ sync.read[m] # NoEntry => mem[m] # NoEntry

AllFits(m) ==
    /\ mem[m] # NoEntry => Fits(m, mem[m].avail)
    /\ mem[m] = NoEntry /\ row[m] # NoEntry => Fits(m, row[m].avail)
    /\ report[m].at = "read" => Fits(m, report[m].avail)
    /\ sync.at = "put" /\ m \in sync.left => Fits(m, sync.read[m].avail)
    /\ m \in register => ~wish[m]

SwitchOf(m) == HalfWay(m) /\ (~undone[m] => AllFits(m))
SwitchInv == \A m \in Machines : SwitchOf(m)

\* The copies say the same about the switch.
SameSwitch(f, g) ==
    \A m \in Machines : /\ f[m] = NoEntry <=> g[m] = NoEntry
                        /\ f[m] # NoEntry => f[m].avail = g[m].avail

\* A step that is not about the switch: it may read the row of a machine that has
\* no entry, and forget what was read.
LEMMA OtherStepsKeepTheSwitch ==
    ASSUME SwitchInv, SameSwitch(mem, mem'), SameSwitch(row, row'),
           UNCHANGED <<register, toggle, wish, undone>>,
           \A m \in Machines :
             report'[m].at = "read" =>
               \/ report'[m] = report[m]
               \/ mem[m] = NoEntry /\ row[m] # NoEntry /\ report'[m].avail = row[m].avail,
           \A m \in Machines :
             sync'.at = "put" /\ m \in sync'.left =>
               \/ sync.at = "put" /\ m \in sync.left /\ sync'.read[m] = sync.read[m]
               \/ mem[m] = NoEntry /\ row[m] # NoEntry /\ sync'.read[m] = row[m],
           \A m \in Machines :
             sync'.at = "pushing" /\ sync'.read[m] # NoEntry => mem[m] # NoEntry
    PROVE  SwitchInv'
<1> SUFFICES ASSUME NEW m \in Machines
             PROVE  SwitchOf(m)'
  BY DEF SwitchInv
<1>1. SwitchOf(m)
  BY DEF SwitchInv
<1>2. HalfWay(m)'
  BY <1>1 DEF SwitchOf, HalfWay, SameSwitch
<1>3. ASSUME AllFits(m)
      PROVE  AllFits(m)'
  BY <1>3 DEF AllFits, Fits, SameSwitch
<1>4. QED
  BY <1>1, <1>2, <1>3 DEF SwitchOf

LEMMA SaidAgain ==
    ASSUME NEW f, NEW g, NEW m \in Machines, f \in [Machines -> Rows], NEW e \in Entry,
           g = [f EXCEPT ![m] = e], f[m] # NoEntry, e.avail = f[m].avail
    PROVE  SameSwitch(f, g)
BY EntriesAreEntries DEF SameSwitch

LEMMA EnvironmentKeepsTheSwitch ==
    ASSUME RegistryInv, SwitchInv,
           (\E m \in Machines : Power(m) \/ Ages(m)) \/ Newcomer \/ Boot \/ Crash
    PROVE  SwitchInv'
<1> USE DEF RegistryInv, RegistryTypeOK, handlerVars
<1>1. ASSUME NEW m \in Machines, Power(m)
      PROVE  SwitchInv'
  BY <1>1 DEF Power, SwitchInv, SwitchOf, HalfWay, AllFits, Fits
<1>2. ASSUME NEW m \in Machines, Ages(m)
      PROVE  SwitchInv'
  <2>1. /\ row' = [row EXCEPT ![m] = IF row[m] = NoEntry THEN row[m]
                                                      ELSE [row[m] EXCEPT !.new = FALSE]]
        /\ mem' = [mem EXCEPT ![m] = IF mem[m] = NoEntry THEN mem[m]
                                                      ELSE [mem[m] EXCEPT !.new = FALSE]]
        /\ UNCHANGED <<register, report, toggle, sync, wish, undone>>
    BY <1>2 DEF Ages
  <2>2. SameSwitch(row, row') /\ SameSwitch(mem, mem')
    BY <2>1, RegistryAssumption DEF SameSwitch, Rows, Entry
  <2>3. \A k \in Machines : sync.at = "pushing" /\ sync.read[k] # NoEntry => mem[k] # NoEntry
    BY DEF SwitchInv, SwitchOf, HalfWay
  <2>4. QED
    BY <2>1, <2>2, <2>3, OtherStepsKeepTheSwitch
<1>3. CASE Newcomer
  BY <1>3 DEF Newcomer, SwitchInv, SwitchOf, HalfWay, AllFits, Fits
<1>4. CASE Boot
  BY <1>4 DEF Boot, Asleep, Nothing, SwitchInv, SwitchOf, HalfWay, AllFits, Fits
<1>5. CASE Crash
  <2> SUFFICES ASSUME NEW m \in Machines
               PROVE  SwitchOf(m)'
    BY DEF SwitchInv
  <2>1. /\ mem'[m] = NoEntry /\ m \notin register' /\ sync'.at = "off" /\ row' = row
        /\ report'[m].at = "none" /\ toggle'[m].at = "none"
    BY <1>5 DEF Crash, Nothing, Asleep, NotWaiting
  <2>2. ~undone'[m] => row[m] = NoEntry \/ row[m].avail = wish'[m]
    BY <1>5 DEF Crash
  <2>3. QED
    BY <2>1, <2>2 DEF SwitchOf, HalfWay, AllFits, Fits
<1>6. QED
  BY <1>1, <1>2, <1>3, <1>4, <1>5

LEMMA HandlersKeepTheSwitch ==
    ASSUME RegistryInv, SwitchInv, NEW m \in Machines,
           \/ Register(m) \/ RegisterCached(m) \/ Beat(m) \/ BeatReads(m) \/ BeatLoads(m)
           \/ BeatSaved(m)
    PROVE  SwitchInv'
<1> USE DEF RegistryInv, RegistryTypeOK
<1>0. /\ \A k \in Machines : SwitchOf(k)
      /\ \A k \in Machines : sync.at = "pushing" /\ sync.read[k] # NoEntry => mem[k] # NoEntry
  BY DEF SwitchInv, SwitchOf, HalfWay
<1>e. \A a, b, c \in BOOLEAN : [conn |-> a, avail |-> b, new |-> c] # NoEntry
  BY EntriesAreEntries
<1>1. CASE Register(m)
  <2>1. /\ row' = [row EXCEPT ![m] = [conn |-> TRUE, avail |-> FALSE, new |-> TRUE]]
        /\ register' = register \cup {m}
        /\ undone' = [undone EXCEPT ![m] = undone[m] \/ wish[m]]
        /\ UNCHANGED <<mem, report, toggle, sync, wish>>
    BY <1>1 DEF Register
  <2>2. ASSUME NEW k \in Machines, k # m
        PROVE  SwitchOf(k)'
    BY <1>0, <2>1, <2>2 DEF SwitchOf, HalfWay, AllFits, Fits
  <2>3. HalfWay(m)'
    <3>1. row'[m].avail = FALSE /\ m \in register' /\ toggle[m].avail \in BOOLEAN
      BY <2>1 DEF Waiting
    <3>2. QED
      BY <1>0, <2>1, <3>1 DEF SwitchOf, HalfWay
  <2>4. ASSUME ~undone'[m]
        PROVE  AllFits(m)'
    <3>1. AllFits(m) /\ ~wish[m] /\ wish[m] \in BOOLEAN
      BY <1>0, <2>1, <2>4 DEF SwitchOf
    <3>2. row'[m].avail = FALSE
      BY <2>1
    <3>3. QED
      BY <2>1, <3>1, <3>2 DEF AllFits, Fits
  <2>5. QED
    BY <2>2, <2>3, <2>4 DEF SwitchInv, SwitchOf
<1>2. CASE RegisterCached(m)
  <2>1. /\ mem' = [mem EXCEPT ![m] = [conn |-> TRUE, avail |-> FALSE, new |-> TRUE]]
        /\ m \in register /\ register' = register \ {m}
        /\ UNCHANGED <<row, report, toggle, sync, wish, undone>>
    BY <1>2 DEF RegisterCached, Put
  <2>2. ASSUME NEW k \in Machines, k # m
        PROVE  SwitchOf(k)'
    BY <1>0, <2>1, <2>2 DEF SwitchOf, HalfWay, AllFits, Fits
  <2>3. mem'[m] # NoEntry /\ mem'[m].avail = FALSE
    BY <1>e, <2>1
  <2>4. HalfWay(m)'
    BY <1>0, <2>1, <2>3 DEF SwitchOf, HalfWay
  <2>5. ASSUME ~undone'[m]
        PROVE  AllFits(m)'
    <3>1. AllFits(m) /\ ~wish[m] /\ wish[m] \in BOOLEAN
      BY <1>0, <2>1, <2>5 DEF SwitchOf, AllFits
    <3>2. QED
      BY <2>1, <2>3, <3>1 DEF AllFits, Fits
  <2>6. QED
    BY <2>2, <2>4, <2>5 DEF SwitchInv, SwitchOf
<1>3. CASE Beat(m)
  <2>1. mem[m] \in Entry
    BY <1>3 DEF Beat, Rows
  <2>2. mem' = [mem EXCEPT ![m] = [mem[m] EXCEPT !.conn = TRUE, !.new = TRUE]]
    BY <1>3 DEF Beat
  <2>3. SameSwitch(mem, mem') /\ SameSwitch(row, row')
    <3>1. /\ [mem[m] EXCEPT !.conn = TRUE, !.new = TRUE] \in Entry
          /\ [mem[m] EXCEPT !.conn = TRUE, !.new = TRUE].avail = mem[m].avail
      BY <2>1 DEF Entry
    <3>2. mem[m] # NoEntry /\ row' = row
      BY <1>3 DEF Beat
    <3>3. SameSwitch(mem, mem')
      BY <2>2, <3>1, <3>2, SaidAgain
    <3>4. QED
      BY <3>2, <3>3 DEF SameSwitch
  <2>4. /\ report' = [report EXCEPT ![m] = [NotWaiting EXCEPT !.at = "write"]]
        /\ UNCHANGED <<register, toggle, sync, wish, undone>>
    BY <1>3 DEF Beat
  <2>5. \A k \in Machines : report'[k].at = "read" => report'[k] = report[k]
    BY <2>4 DEF NotWaiting
  <2>6. QED
    BY <1>0, <2>3, <2>4, <2>5, OtherStepsKeepTheSwitch
<1>4. CASE BeatReads(m)
  <2>1. /\ report' = [report EXCEPT ![m] = [at |-> "read", avail |-> row[m].avail]]
        /\ mem[m] = NoEntry /\ row[m] # NoEntry
        /\ UNCHANGED <<mem, row, register, toggle, sync, wish, undone>>
    BY <1>4 DEF BeatReads
  <2>2. \A k \in Machines :
          \/ report'[k] = report[k]
          \/ mem[k] = NoEntry /\ row[k] # NoEntry /\ report'[k].avail = row[k].avail
    BY <2>1
  <2>3. SameSwitch(mem, mem') /\ SameSwitch(row, row')
    BY <2>1 DEF SameSwitch
  <2>4. QED
    BY <1>0, <2>1, <2>2, <2>3, OtherStepsKeepTheSwitch
<1>5. CASE BeatLoads(m)
  <2>1. /\ mem' = [mem EXCEPT ![m] = [conn |-> TRUE, avail |-> report[m].avail, new |-> TRUE]]
        /\ report[m].at = "read"
        /\ report' = [report EXCEPT ![m] = [NotWaiting EXCEPT !.at = "write"]]
        /\ UNCHANGED <<row, register, toggle, sync, wish, undone>>
    BY <1>5 DEF BeatLoads, Put
  <2>2. ASSUME NEW k \in Machines, k # m
        PROVE  SwitchOf(k)'
    BY <1>0, <2>1, <2>2 DEF SwitchOf, HalfWay, AllFits, Fits
  <2>3. mem'[m] # NoEntry /\ mem'[m].avail = report[m].avail /\ report'[m].at = "write"
    <3>1. report[m].avail \in BOOLEAN
      BY DEF Waiting
    <3>2. QED
      BY <1>e, <2>1, <3>1 DEF NotWaiting
  <2>4. HalfWay(m)'
    BY <1>0, <2>1, <2>3 DEF SwitchOf, HalfWay
  <2>5. ASSUME AllFits(m)
        PROVE  AllFits(m)'
    BY <2>1, <2>3, <2>5 DEF AllFits, Fits
  <2>6. QED
    BY <1>0, <2>1, <2>2, <2>4, <2>5 DEF SwitchInv, SwitchOf
<1>6. CASE BeatSaved(m)
  <2>1. row[m] \in Entry
    BY <1>6 DEF BeatSaved, RowsStay, Rows
  <2>2. row' = [row EXCEPT ![m] = [row[m] EXCEPT !.conn = TRUE, !.new = TRUE]]
    BY <1>6 DEF BeatSaved
  <2>3. SameSwitch(mem, mem') /\ SameSwitch(row, row')
    <3>1. /\ [row[m] EXCEPT !.conn = TRUE, !.new = TRUE] \in Entry
          /\ [row[m] EXCEPT !.conn = TRUE, !.new = TRUE].avail = row[m].avail
      BY <2>1 DEF Entry
    <3>2. row[m] # NoEntry /\ mem' = mem
      BY <1>6, <2>1, EntriesAreEntries DEF BeatSaved
    <3>3. SameSwitch(row, row')
      BY <2>2, <3>1, <3>2, SaidAgain
    <3>4. QED
      BY <3>2, <3>3 DEF SameSwitch
  <2>4. /\ report' = [report EXCEPT ![m] = NotWaiting]
        /\ UNCHANGED <<register, toggle, sync, wish, undone>>
    BY <1>6 DEF BeatSaved
  <2>5. \A k \in Machines : report'[k].at = "read" => report'[k] = report[k]
    BY <2>4 DEF NotWaiting
  <2>6. QED
    BY <1>0, <2>3, <2>4, <2>5, OtherStepsKeepTheSwitch
<1>7. QED
  BY <1>1, <1>2, <1>3, <1>4, <1>5, <1>6

LEMMA TogglesKeepTheSwitch ==
    ASSUME RegistryInv, SwitchInv, NEW m \in Machines,
           ToggleReads(m) \/ ToggleWrites(m) \/ ToggleCached(m)
    PROVE  SwitchInv'
<1> USE DEF RegistryInv, RegistryTypeOK
<1>0. \A k \in Machines : SwitchOf(k)
  BY DEF SwitchInv
<1>1. CASE ToggleReads(m)
  <2>1. /\ toggle' = [toggle EXCEPT ![m] = [NotWaiting EXCEPT !.at = "read", !.avail = ~row[m].avail]]
        /\ toggle[m].at = "none"
        /\ UNCHANGED <<row, mem, register, report, sync, wish, undone>>
    BY <1>1 DEF ToggleReads
  <2>2. toggle'[m].at = "read"
    BY <2>1 DEF NotWaiting
  <2>3. \A k \in Machines : toggle'[k] = toggle[k] \/ (toggle'[k].at # "write" /\ toggle[k].at # "write")
    BY <2>1, <2>2
  <2>4. QED
    BY <1>0, <2>1, <2>3 DEF SwitchInv, SwitchOf, HalfWay, AllFits, Fits
<1>2. CASE ToggleWrites(m)
  <2>1. /\ toggle[m].at = "read"
        /\ row' = [row EXCEPT ![m] = [row[m] EXCEPT !.avail = toggle[m].avail]]
        /\ toggle' = [toggle EXCEPT ![m] = [toggle[m] EXCEPT !.at = "write"]]
        /\ UNCHANGED <<mem, register, report, sync, wish, undone>>
    BY <1>2 DEF ToggleWrites
  <2>2. row[m] \in Entry /\ toggle[m] \in Waiting
    BY <2>1 DEF RowsStay, Rows
  <2>3. /\ row'[m].avail = toggle[m].avail
        /\ toggle'[m].at = "write" /\ toggle'[m].avail = toggle[m].avail
    BY <2>1, <2>2 DEF Entry, Waiting
  <2>4. ASSUME NEW k \in Machines, k # m
        PROVE  SwitchOf(k)'
    BY <1>0, <2>1, <2>4 DEF SwitchOf, HalfWay, AllFits, Fits
  <2>5. HalfWay(m)'
    BY <1>0, <2>1, <2>3 DEF SwitchOf, HalfWay
  <2>6. ASSUME AllFits(m)
        PROVE  AllFits(m)'
    BY <2>1, <2>3, <2>6 DEF AllFits, Fits
  <2>7. QED
    BY <1>0, <2>1, <2>4, <2>5, <2>6 DEF SwitchInv, SwitchOf
<1>3. CASE ToggleCached(m)
  <2>1. /\ toggle[m].at = "write"
        /\ mem' = IF mem[m] = NoEntry THEN mem ELSE [mem EXCEPT ![m] = [mem[m] EXCEPT !.avail = toggle[m].avail]]
        /\ wish' = [wish EXCEPT ![m] = toggle[m].avail]
        /\ undone' = [undone EXCEPT ![m] = OlderOnItsWay(m, toggle[m].avail)]
        /\ toggle' = [toggle EXCEPT ![m] = NotWaiting]
        /\ UNCHANGED <<row, register, report, sync>>
    BY <1>3 DEF ToggleCached
  <2>2. ASSUME NEW k \in Machines, k # m
        PROVE  SwitchOf(k)'
    <3>1. /\ mem'[k] = mem[k] /\ wish'[k] = wish[k] /\ undone'[k] = undone[k]
          /\ toggle'[k] = toggle[k]
      BY <2>1, <2>2
    <3>2. QED
      BY <1>0, <2>1, <3>1 DEF SwitchOf, HalfWay, AllFits, Fits
  <2>3. /\ wish'[m] = toggle[m].avail /\ toggle'[m].at = "none"
        /\ undone'[m] = OlderOnItsWay(m, toggle[m].avail)
        /\ toggle[m].avail \in BOOLEAN
    BY <2>1 DEF NotWaiting, Waiting
  <2>4. /\ mem'[m] = NoEntry <=> mem[m] = NoEntry
        /\ mem[m] # NoEntry => mem'[m].avail = toggle[m].avail
    <3>1. CASE mem[m] = NoEntry
      BY <2>1, <3>1
    <3>2. CASE mem[m] # NoEntry
      <4>1. mem[m] \in Entry
        BY <3>2 DEF Rows
      <4>2. mem'[m] = [mem[m] EXCEPT !.avail = toggle[m].avail]
        BY <2>1, <3>2
      <4>3. [mem[m] EXCEPT !.avail = toggle[m].avail] \in Entry
        BY <2>3, <4>1, EntriesAreEntries
      <4>4. [mem[m] EXCEPT !.avail = toggle[m].avail].avail = toggle[m].avail
        BY <4>1 DEF Entry
      <4>5. QED
        BY <3>2, <4>2, <4>3, <4>4, EntriesAreEntries
    <3>3. QED
      BY <3>1, <3>2
  <2>5. HalfWay(m)'
    BY <1>0, <2>1, <2>3, <2>4 DEF SwitchOf, HalfWay
  <2>6. ASSUME ~undone'[m]
        PROVE  AllFits(m)'
    <3>1. ~OlderOnItsWay(m, toggle[m].avail)
      BY <2>3, <2>6
    <3>2. m \in register' => ~wish'[m]
      BY <2>1, <2>3, <3>1 DEF OlderOnItsWay
    <3>3. mem'[m] # NoEntry => mem'[m].avail = wish'[m]
      BY <2>3, <2>4
    <3>4. mem'[m] = NoEntry => row'[m].avail = wish'[m]
      <4>1. mem[m] = NoEntry => row[m].avail = toggle[m].avail
        BY <1>0, <2>1, <3>1 DEF SwitchOf, HalfWay, OlderOnItsWay
      <4>2. QED
        BY <2>1, <2>3, <2>4, <4>1
    <3>5. report'[m].at = "read" => report'[m].avail = wish'[m]
      BY <2>1, <2>3, <3>1 DEF OlderOnItsWay
    <3>6. sync'.at = "put" /\ m \in sync'.left =>
            sync'.read[m].avail = wish'[m]
      BY <2>1, <2>3, <3>1 DEF OlderOnItsWay
    <3>7. QED
      BY <3>2, <3>3, <3>4, <3>5, <3>6 DEF AllFits, Fits
  <2>7. QED
    BY <2>2, <2>5, <2>6 DEF SwitchInv, SwitchOf
<1>4. QED
  BY <1>1, <1>2, <1>3

LEMMA SyncKeepsTheSwitch ==
    ASSUME RegistryInv, SwitchInv, SyncStep
    PROVE  SwitchInv'
<1> USE DEF RegistryInv, RegistryTypeOK, handlerVars
<1>0. /\ \A k \in Machines : SwitchOf(k)
      /\ \A k \in Machines : sync.at = "pushing" /\ sync.read[k] # NoEntry => mem[k] # NoEntry
  BY DEF SwitchInv, SwitchOf, HalfWay
<1>s. SameSwitch(mem, mem) /\ SameSwitch(row, row)
  BY DEF SameSwitch
<1>1. CASE PassBegins
  <2>1. sync'.at = "pushing" /\ \A k \in Machines : sync'.read[k] = NoEntry
    BY <1>1 DEF PassBegins, Nothing
  <2>2. UNCHANGED <<row, mem, register, report, toggle, wish, undone>>
    BY <1>1 DEF PassBegins
  <2>3. QED
    BY <1>s, <2>1, <2>2, OtherStepsKeepTheSwitch
<1>2. CASE PassAborts
  <2>1. sync'.at = "push" /\ UNCHANGED <<row, mem, register, report, toggle, wish, undone>>
    BY <1>2 DEF PassAborts, Asleep
  <2>2. QED
    BY <1>s, <2>1, OtherStepsKeepTheSwitch
<1>3. CASE StaleRead
  <2>1. sync'.at = "mark" /\ UNCHANGED <<row, mem, register, report, toggle, wish, undone>>
    BY <1>3 DEF StaleRead
  <2>2. QED
    BY <1>s, <2>1, OtherStepsKeepTheSwitch
<1>4. CASE LoadReads
  <2> DEFINE missing == {m \in Known(row) : row[m].conn /\ mem[m] = NoEntry}
  <2>1. /\ sync' = [at |-> "put", left |-> missing,
                    read |-> [m \in Machines |-> IF m \in missing THEN row[m] ELSE NoEntry]]
        /\ UNCHANGED <<row, mem, register, report, toggle, wish, undone>>
    BY <1>4 DEF LoadReads
  <2>2. \A m \in missing : mem[m] = NoEntry /\ row[m] # NoEntry
    BY DEF Known
  <2> HIDE DEF missing
  <2>3. \A m \in Machines : m \in sync'.left =>
          mem[m] = NoEntry /\ row[m] # NoEntry /\ sync'.read[m] = row[m]
    BY <2>1, <2>2
  <2>4. sync'.at = "put"
    BY <2>1
  <2>5. QED
    BY <1>s, <2>1, <2>3, <2>4, OtherStepsKeepTheSwitch
<1>5. CASE LoadPuts
  <2> SUFFICES ASSUME NEW m \in Machines
               PROVE  SwitchOf(m)'
    BY DEF SwitchInv
  <2>1. /\ mem'[m] = IF m \in sync.left THEN sync.read[m] ELSE mem[m]
        /\ sync.at = "put" /\ sync'.at = "push"
        /\ UNCHANGED <<row, register, report, toggle, wish, undone>>
    BY <1>5 DEF LoadPuts, Asleep
  <2>2. SwitchOf(m)
    BY <1>0
  <2>3. QED
    BY <2>1, <2>2 DEF SwitchOf, HalfWay, AllFits, Fits
<1>6. ASSUME NEW m \in Machines, PushReads(m)
      PROVE  SwitchInv'
  <2>1. sync' = [sync EXCEPT !.left = sync.left \ {m}, !.read = [sync.read EXCEPT ![m] = mem[m]]]
    BY <1>6 DEF PushReads
  <2>2. /\ sync.at = "pushing" /\ m \in sync.left
        /\ UNCHANGED <<row, mem, register, report, toggle, wish, undone>>
    BY <1>6 DEF PushReads
  <2>3. sync'.at = "pushing"
        /\ \A k \in Machines : sync'.read[k] = IF k = m THEN mem[m] ELSE sync.read[k]
    BY <2>1, <2>2 DEF Passes
  <2>4. \A k \in Machines : sync'.read[k] # NoEntry => mem[k] # NoEntry
    BY <1>0, <2>2, <2>3
  <2>5. QED
    BY <1>s, <2>2, <2>3, <2>4, OtherStepsKeepTheSwitch
<1>7. ASSUME NEW m \in Machines, PushWrites(m)
      PROVE  SwitchInv'
  <2>1. /\ row' = [row EXCEPT ![m] = sync.read[m]]
        /\ mem[m] # NoEntry
        /\ UNCHANGED <<mem, register, report, toggle, wish, undone>>
    BY <1>0, <1>7 DEF PushWrites
  <2>2. sync'.at = "pushing" /\ \A k \in Machines : sync'.read[k] = NoEntry
    BY <1>7 DEF PushWrites, Passes, Nothing
  <2>3. ASSUME NEW k \in Machines
        PROVE  SwitchOf(k)'
    <3>1. mem[k] = NoEntry => row'[k] = row[k]
      BY <2>1
    <3>2. SwitchOf(k)
      BY <1>0
    <3>3. QED
      BY <2>1, <2>2, <3>1, <3>2 DEF SwitchOf, HalfWay, AllFits, Fits
  <2>4. QED
    BY <2>3 DEF SwitchInv
<1>8. ASSUME NEW m \in Machines, MarkRow(m)
      PROVE  SwitchInv'
  <2>1. row[m] \in Entry
    BY <1>8 DEF MarkRow, RowsStay, Known, Rows
  <2>2. row' = [row EXCEPT ![m] = [row[m] EXCEPT !.conn = FALSE]]
    BY <1>8 DEF MarkRow
  <2>3. SameSwitch(row, row')
    BY <2>1, <2>2, RegistryAssumption DEF SameSwitch, Entry
  <2>4. sync'.at = "marked" /\ UNCHANGED <<mem, register, report, toggle, wish, undone>>
    BY <1>8 DEF MarkRow, Passes
  <2>5. QED
    BY <1>s, <2>3, <2>4, OtherStepsKeepTheSwitch
<1>9. ASSUME NEW m \in Machines, MarkEntry(m)
      PROVE  SwitchInv'
  <2>1. mem[m] # NoEntry => mem[m] \in Entry
    BY DEF Rows
  <2>2. SameSwitch(mem, mem')
    BY <1>9, <2>1, RegistryAssumption DEF MarkEntry, SameSwitch, Entry
  <2>3. sync'.at = "mark" /\ UNCHANGED <<row, register, report, toggle, wish, undone>>
    BY <1>9 DEF MarkEntry
  <2>4. QED
    BY <1>s, <2>2, <2>3, OtherStepsKeepTheSwitch
<1>10. QED
  BY <1>1, <1>2, <1>3, <1>4, <1>5, <1>6, <1>7, <1>8, <1>9 DEF SyncStep

\* An entry in memory is available as the owner switched it last, unless the
\* machine registered since, the memory was lost before the row was written, or
\* older news was on its way (toggle_availability, node_heartbeat,
\* sync_nodes_with_db).
THEOREM MemoryKeepsTheSwitchCorrect == RegistrySpec => []MemoryKeepsTheSwitch
<1> DEFINE Inv == RegistryInv /\ SwitchInv
<1>1. RegistryInit => Inv
  <2> SUFFICES ASSUME RegistryInit
               PROVE  SwitchInv
    BY RegistryAtFirst
  <2>1. \A m \in Machines : /\ mem[m] = NoEntry /\ row[m] = NoEntry /\ m \notin register
                            /\ toggle[m].at = "none" /\ report[m].at = "none"
        /\ sync.at = "off"
    BY DEF RegistryInit, Nothing, NotWaiting, Asleep
  <2>2. QED
    BY <2>1 DEF SwitchInv, SwitchOf, HalfWay, AllFits, Fits
<1>2. Inv /\ [RegistryNext]_registryVars => Inv'
  <2> SUFFICES ASSUME RegistryInv, SwitchInv, [RegistryNext]_registryVars
               PROVE  SwitchInv'
    BY RegistryKept
  <2>1. CASE Newcomer \/ Boot \/ Crash
    BY <2>1, EnvironmentKeepsTheSwitch
  <2>2. CASE SyncStep
    BY <2>2, SyncKeepsTheSwitch
  <2>3. ASSUME NEW m \in Machines,
               Power(m) \/ Ages(m) \/ Register(m) \/ ToggleReads(m) \/ HandlerStep(m)
        PROVE  SwitchInv'
    BY <2>3, EnvironmentKeepsTheSwitch, HandlersKeepTheSwitch, TogglesKeepTheSwitch
       DEF HandlerStep, BeatStep, ToggleStep
  <2>4. CASE UNCHANGED registryVars
    BY <2>4 DEF registryVars, handlerVars, SwitchInv, SwitchOf, HalfWay, AllFits, Fits
  <2>5. QED
    BY <2>1, <2>2, <2>3, <2>4 DEF RegistryNext
<1>3. Inv => MemoryKeepsTheSwitch
  BY DEF SwitchInv, SwitchOf, AllFits, Fits, MemoryKeepsTheSwitch, Known
<1>4. QED
  BY <1>1, <1>2, <1>3, PTL DEF RegistrySpec

-----------------------------------------------------------------------------
(* The id and the session.                                                 *)

(* The three parts of the state.                                           *)

\* A flow that has not posted yet has its retries before it, and one that is to
\* post has one left.
FlowInv ==
    /\ flow \in [Flows -> [at : Places, tries : 0..MaxRetries]]
    /\ \A f \in Flows : /\ flow[f].at \in {"off", "ask", "ask again"} => flow[f].tries = 0
                        /\ flow[f].at = "post" => flow[f].tries < MaxRetries

IdInv ==
    /\ rowId \in Ids /\ nodeId \in Ids /\ made \in Ids
    /\ idsGiven \subseteq 1..NodeIds
    /\ posted \subseteq Posts
    /\ \A p \in posted : p.at = "write" => p.id # NoId

\* Challenges are numbered as they are made: none is read before, and none that was
\* turned into a token is outstanding.
ChallengeInv ==
    /\ challenge \in 0..Challenges /\ generated \in 0..Challenges
    /\ verifying \in [1..Challenges -> 0..Overlap]
    /\ tokens \in [1..Challenges -> Nat]
    /\ challenge <= generated
    /\ \A c \in 1..Challenges : generated < c => verifying[c] = 0 /\ tokens[c] = 0
    /\ \A c \in 1..Challenges : challenge = c => tokens[c] = 0
    /\ TokensOfOneRound

OutdatedInv == outdated \in BOOLEAN

IdentityInv == FlowInv /\ IdInv /\ ChallengeInv /\ OutdatedInv

LEMMA InvIsTyped == IdentityInv => IdentityTypeOK
<1> SUFFICES ASSUME IdentityInv
             PROVE  IdentityTypeOK
  OBVIOUS
<1>1. QED
  BY DEF IdentityInv, FlowInv, IdInv, ChallengeInv, OutdatedInv, IdentityTypeOK

LEMMA IdentityAtFirst == IdentityInit => IdentityInv
<1> SUFFICES ASSUME IdentityInit
             PROVE  IdentityInv
  OBVIOUS
<1>1. 0 \in 0..MaxRetries /\ 0 < MaxRetries /\ 0 \in Ids /\ 0 \in 0..Challenges
  BY IdentityAssumption DEF Ids
<1>2. FlowInv
  BY <1>1 DEF IdentityInit, FlowInv, Places
<1>3. IdInv
  BY <1>1 DEF IdentityInit, IdInv, NoId
<1>4. ChallengeInv
  BY <1>1, IdentityAssumption DEF IdentityInit, ChallengeInv, TokensOfOneRound
<1>5. OutdatedInv
  BY DEF IdentityInit, OutdatedInv
<1>6. QED
  BY <1>2, <1>3, <1>4, <1>5 DEF IdentityInv

-----------------------------------------------------------------------------
(* Flows.                                                                  *)

LEMMA AgainKeepsFlows ==
    ASSUME FlowInv, NEW f \in Flows, Again(f)
    PROVE  FlowInv'
<1>1. PICK place \in {"post", "failed"} :
        /\ flow' = [flow EXCEPT ![f] = [flow[f] EXCEPT !.at = place]]
        /\ place = "post" => flow[f].tries < MaxRetries
  BY DEF Again, Goes
<1>2. place \in Places /\ place \notin {"off", "ask", "ask again"}
  BY DEF Places
<1>3. flow[f] \in [at : Places, tries : 0..MaxRetries]
  BY DEF FlowInv
<1>4. [flow[f] EXCEPT !.at = place] \in [at : Places, tries : 0..MaxRetries]
  BY <1>2, <1>3
<1>5. [flow[f] EXCEPT !.at = place].at = place /\ [flow[f] EXCEPT !.at = place].tries = flow[f].tries
  BY <1>3
<1>6. QED
  BY <1>1, <1>2, <1>4, <1>5 DEF FlowInv

LEMMA FlowsKeepFlows ==
    ASSUME FlowInv, NEW f \in Flows, FlowStep(f)
    PROVE  FlowInv'
<1>1. CASE Connect(f) \/ Found(f) \/ NotFound(f)
  <2>1. \E place \in {"ask", "ask again", "post", "done"} :
          Goes(f, place) /\ flow[f].at \in {"off", "ask", "ask again"}
    BY <1>1 DEF Connect, Found, NotFound
  <2>2. PICK place \in Places : /\ place \in {"ask", "ask again", "post", "done"}
                               /\ flow' = [flow EXCEPT ![f] = [flow[f] EXCEPT !.at = place]]
    BY <2>1 DEF Goes, Places
  <2>3. flow[f] \in [at : Places, tries : 0..MaxRetries] /\ flow[f].tries = 0
    <3>1. flow[f].at \in {"off", "ask", "ask again"}
      BY <2>1
    <3>2. QED
      BY <3>1 DEF FlowInv
  <2>4. 0 < MaxRetries
    BY IdentityAssumption
  <2>5. QED
    BY <2>2, <2>3, <2>4 DEF FlowInv
<1>2. CASE Post(f)
  <2>1. flow[f].tries \in 0..MaxRetries /\ flow[f].tries < MaxRetries
    BY <1>2 DEF Post, FlowInv
  <2>2. flow' = [flow EXCEPT ![f] = [at |-> "wait", tries |-> flow[f].tries + 1]]
    BY <1>2 DEF Post
  <2>3. [at |-> "wait", tries |-> flow[f].tries + 1] \in [at : Places, tries : 0..MaxRetries]
    BY <2>1, IdentityAssumption DEF Places
  <2>4. QED
    BY <2>2, <2>3 DEF FlowInv
<1>3. CASE TimedOut(f)
  BY <1>3, AgainKeepsFlows DEF TimedOut
<1>4. QED
  BY <1>1, <1>2, <1>3 DEF FlowStep

LEMMA FlowsKeepIds ==
    ASSUME FlowInv, IdInv, NEW f \in Flows, FlowStep(f)
    PROVE  IdInv'
<1>1. CASE Connect(f) \/ TimedOut(f)
  BY <1>1 DEF Connect, TimedOut, IdInv
<1>2. CASE Found(f)
  <2>1. /\ rowId # NoId /\ nodeId' = rowId /\ idsGiven' = idsGiven \cup {rowId}
        /\ rowId' = rowId /\ made' = made /\ posted' = posted
    BY <1>2 DEF Found
  <2>2. rowId \in 1..NodeIds
    BY <2>1, IdentityAssumption DEF IdInv, Ids, NoId
  <2>3. QED
    BY <2>1, <2>2 DEF IdInv
<1>3. CASE NotFound(f)
  <2>1. /\ rowId' = rowId /\ made' = made /\ posted' = posted /\ idsGiven' = idsGiven
        /\ nodeId' \in {nodeId, NoId}
    BY <1>3 DEF NotFound
  <2>2. NoId \in Ids
    BY IdentityAssumption DEF Ids, NoId
  <2>3. QED
    BY <2>1, <2>2 DEF IdInv
<1>4. CASE Post(f)
  <2>1. flow[f].tries \in 0..MaxRetries /\ flow[f].tries < MaxRetries
    BY <1>4 DEF Post, FlowInv
  <2>2. flow[f].tries + 1 \in 1..MaxRetries /\ NoId \in Ids
    BY <2>1, IdentityAssumption DEF Ids, NoId
  <2>3. [flow |-> f, try |-> flow[f].tries + 1, at |-> "look", id |-> NoId] \in Posts
    BY <2>2 DEF Posts
  <2>4. QED
    BY <1>4, <2>3 DEF Post, IdInv
<1>5. QED
  BY <1>1, <1>2, <1>3, <1>4 DEF FlowStep

-----------------------------------------------------------------------------
(* Calls.                                                                  *)

LEMMA PostsKeepBoth ==
    ASSUME FlowInv, IdInv, NEW p \in posted, PostStep(p)
    PROVE  FlowInv' /\ IdInv'
<1>0. p \in Posts
  BY DEF IdInv
<1>1. CASE PostLost(p)
  BY <1>1 DEF PostLost, FlowInv, IdInv
<1>2. CASE LookUp(p)
  <2>1. ASSUME NEW id \in Ids, id # NoId,
               posted' = (posted \ {p}) \cup {[p EXCEPT !.at = "write", !.id = id]},
               made' \in Ids
        PROVE  FlowInv' /\ IdInv'
    <3>1. [p EXCEPT !.at = "write", !.id = id] \in Posts
      BY <1>0 DEF Posts
    <3>2. [p EXCEPT !.at = "write", !.id = id].id = id
      BY <1>0 DEF Posts
    <3>3. UNCHANGED <<rowId, nodeId, flow, idsGiven>>
      BY <1>2 DEF LookUp
    <3>4. QED
      BY <2>1, <3>1, <3>2, <3>3 DEF IdInv, FlowInv
  <2>2. CASE rowId # NoId
    BY <1>2, <2>1, <2>2 DEF LookUp, IdInv
  <2>3. CASE rowId = NoId
    <3>1. made + 1 \in Ids /\ made + 1 # NoId
      BY <1>2, <2>3, IdentityAssumption DEF LookUp, IdInv, Ids, NoId
    <3>2. QED
      BY <1>2, <2>1, <2>3, <3>1 DEF LookUp
  <2>4. QED
    BY <2>2, <2>3
<1>3. CASE WriteRow(p)
  <2>1. p.id \in Ids /\ p.id # NoId /\ p.flow \in Flows
    BY <1>0, <1>3 DEF WriteRow, IdInv, Posts
  <2>2. p.id \in 1..NodeIds
    BY <2>1, IdentityAssumption DEF Ids, NoId
  <2>3. rowId' \in Ids /\ made' \in Ids /\ idsGiven' \subseteq 1..NodeIds
    BY <1>3, <2>1, <2>2 DEF WriteRow, IdInv
  <2>4. ASSUME NEW ok \in BOOLEAN, Answered(p, ok)
        PROVE  FlowInv' /\ nodeId' \in Ids /\ posted' \subseteq posted
    <3>1. posted' \subseteq posted
      BY <2>4 DEF Answered
    <3>2. CASE UNCHANGED <<flow, nodeId>>
      BY <3>1, <3>2 DEF FlowInv, IdInv
    <3>3. CASE Goes(p.flow, "done") /\ nodeId' = p.id
      BY <2>1, <3>1, <3>3 DEF FlowInv, Goes, Places
    <3>4. CASE Again(p.flow) /\ UNCHANGED nodeId
      BY <2>1, <3>1, <3>4, AgainKeepsFlows DEF IdInv
    <3>5. QED
      BY <2>4, <3>2, <3>3, <3>4 DEF Answered
  <2>5. Answered(p, TRUE) \/ Answered(p, FALSE)
    BY <1>3 DEF WriteRow
  <2>6. QED
    BY <2>3, <2>4, <2>5 DEF IdInv
<1>4. QED
  BY <1>1, <1>2, <1>3 DEF PostStep

-----------------------------------------------------------------------------
(* Challenges.                                                             *)

LEMMA ChallengesKeepTheirs ==
    ASSUME ChallengeInv, ChallengeStep
    PROVE  ChallengeInv'
<1> USE IdentityAssumption DEF ChallengeInv, TokensOfOneRound
<1>1. CASE Generate
  <2>1. /\ generated < Challenges /\ generated' = generated + 1 /\ challenge' = generated + 1
        /\ UNCHANGED <<verifying, tokens>>
    BY <1>1 DEF Generate
  <2>2. generated + 1 \in 1..Challenges
    BY <2>1
  <2>3. tokens[generated + 1] = 0
    BY <2>2
  <2>4. /\ challenge' \in 0..Challenges /\ generated' \in 0..Challenges
        /\ challenge' <= generated'
        /\ \A c \in 1..Challenges : challenge' = c => tokens[c] = 0
    BY <2>1, <2>2, <2>3
  <2>5. \A c \in 1..Challenges : generated' < c => verifying[c] = 0 /\ tokens[c] = 0
    BY <2>1
  <2>6. QED
    BY <2>1, <2>4, <2>5
<1>2. CASE Outdate
  BY <1>2 DEF Outdate
<1>3. CASE VerifyReads
  <2>1. challenge \in 1..Challenges /\ tokens[challenge] = 0 /\ verifying[challenge] < Overlap
    BY <1>3 DEF VerifyReads
  <2>2. /\ verifying' = [verifying EXCEPT ![challenge] = verifying[challenge] + 1]
        /\ UNCHANGED <<challenge, generated, tokens>>
    BY <1>3 DEF VerifyReads
  <2>3. verifying[challenge] + 1 \in 0..Overlap
    BY <2>1
  <2>4. /\ \A c \in 1..Challenges : c # challenge => verifying'[c] = verifying[c]
        /\ verifying'[challenge] = verifying[challenge] + 1
    BY <2>1, <2>2, <2>3
  <2>5. verifying' \in [1..Challenges -> 0..Overlap]
    BY <2>2, <2>3
  <2>6. ASSUME NEW c \in 1..Challenges
        PROVE  /\ tokens[c] + verifying'[c] <= Overlap
               /\ generated < c => verifying'[c] = 0 /\ tokens[c] = 0
    <3>1. CASE c = challenge
      <4>1. verifying'[c] \in 0..Overlap /\ tokens[c] = 0
        BY <2>1, <2>3, <2>4, <3>1
      <4>2. ~(generated < c)
        BY <3>1
      <4>3. QED
        BY <4>1, <4>2
    <3>2. CASE c # challenge
      <4>1. verifying'[c] = verifying[c]
        BY <2>4, <3>2
      <4>2. QED
        BY <4>1
    <3>3. QED
      BY <3>1, <3>2
  <2>7. QED
    BY <2>2, <2>5, <2>6
<1>4. CASE Cleanup
  BY <1>4 DEF Cleanup
<1>5. ASSUME NEW c \in 1..Challenges, Verified(c)
      PROVE  ChallengeInv'
  <2>1. /\ verifying[c] > 0 /\ verifying' = [verifying EXCEPT ![c] = verifying[c] - 1]
        /\ tokens' = [tokens EXCEPT ![c] = tokens[c] + 1]
        /\ challenge' = 0 /\ generated' = generated
    BY <1>5 DEF Verified, Resumes
  <2>2. verifying[c] - 1 \in 0..Overlap /\ tokens[c] + 1 \in Nat
    BY <2>1
  <2>3. QED
    BY <2>1, <2>2
<1>6. ASSUME NEW c \in 1..Challenges, NotVerified(c)
      PROVE  ChallengeInv'
  <2>1. /\ verifying[c] > 0 /\ verifying' = [verifying EXCEPT ![c] = verifying[c] - 1]
        /\ UNCHANGED <<challenge, generated, tokens>>
    BY <1>6 DEF NotVerified, Resumes
  <2>2. verifying[c] - 1 \in 0..Overlap
    BY <2>1
  <2>3. QED
    BY <2>1, <2>2
<1>7. QED
  BY <1>1, <1>2, <1>3, <1>4, <1>5, <1>6 DEF ChallengeStep

LEMMA ChallengesAgeOrNot ==
    ASSUME OutdatedInv, ChallengeStep
    PROVE  OutdatedInv'
BY DEF OutdatedInv, ChallengeStep, Generate, Outdate, VerifyReads, Cleanup, Verified, NotVerified

LEMMA IdentityKept == IdentityInv /\ [IdentityNext]_identityVars => IdentityInv'
<1> SUFFICES ASSUME IdentityInv, [IdentityNext]_identityVars
             PROVE  IdentityInv'
  OBVIOUS
<1>1. ASSUME NEW f \in Flows, FlowStep(f)
      PROVE  IdentityInv'
  <2>1. UNCHANGED challengeVars
    BY <1>1 DEF FlowStep, Connect, Found, NotFound, Post, TimedOut
  <2>2. QED
    BY <1>1, <2>1, FlowsKeepFlows, FlowsKeepIds DEF IdentityInv, ChallengeInv, TokensOfOneRound,
       OutdatedInv, challengeVars
<1>2. ASSUME NEW p \in posted, PostStep(p)
      PROVE  IdentityInv'
  <2>1. UNCHANGED challengeVars
    BY <1>2 DEF PostStep, PostLost, LookUp, WriteRow
  <2>2. QED
    BY <1>2, <2>1, PostsKeepBoth DEF IdentityInv, ChallengeInv, TokensOfOneRound, OutdatedInv,
       challengeVars
<1>3. CASE ChallengeStep
  <2>1. UNCHANGED <<rowId, nodeId, made, flow, posted, idsGiven>>
    BY <1>3 DEF ChallengeStep, Generate, Outdate, VerifyReads, Cleanup, Verified, NotVerified
  <2>2. QED
    BY <1>3, <2>1, ChallengesKeepTheirs, ChallengesAgeOrNot DEF IdentityInv, FlowInv, IdInv
<1>4. CASE UNCHANGED identityVars
  BY <1>4 DEF identityVars, IdentityInv, FlowInv, IdInv, ChallengeInv, TokensOfOneRound,
              OutdatedInv
<1>5. QED
  BY <1>1, <1>2, <1>3, <1>4 DEF IdentityNext

\* The machine, its calls and its challenges keep their types, and no call
\* writes a row without an id (register_node).
THEOREM IdentityTypeCorrect == IdentitySpec => []IdentityTypeOK
BY IdentityAtFirst, IdentityKept, InvIsTyped, PTL DEF IdentitySpec

\* A challenge is turned into no more tokens than verifications of it were in
\* flight at once (verify_node_challenge).
THEOREM TokensOfOneRoundCorrect == IdentitySpec => []TokensOfOneRound
<1>1. IdentityInv => TokensOfOneRound
  BY DEF IdentityInv, ChallengeInv
<1>2. QED
  BY <1>1, IdentityAtFirst, IdentityKept, PTL DEF IdentitySpec

\* A key that was answered an id keeps it: the second of two calls that both found
\* no row breaks the unique index (register_node, deps.py).
THEOREM IdentityIsKeptCorrect == IdentitySpec => []IdentityIsKept
<1>1. IdentityInit => IdentityIsKept
  BY DEF IdentityInit, IdentityIsKept
<1>2. IdentityTypeOK /\ IdentityIsKept /\ [IdentityNext]_identityVars => IdentityIsKept'
  <2> SUFFICES ASSUME IdentityTypeOK, IdentityIsKept, [IdentityNext]_identityVars
               PROVE  IdentityIsKept'
    OBVIOUS
  <2> USE DEF IdentityIsKept
  <2>1. CASE UNCHANGED <<rowId, nodeId, idsGiven>>
    BY <2>1
  <2>2. ASSUME NEW f \in Flows, FlowStep(f)
        PROVE  IdentityIsKept'
    BY <2>2 DEF FlowStep, Connect, Found, NotFound, Post, TimedOut, NoId
  <2>3. ASSUME NEW p \in posted, PostStep(p)
        PROVE  IdentityIsKept'
    <3>1. CASE PostLost(p) \/ LookUp(p)
      BY <3>1 DEF PostLost, LookUp
    <3>2. CASE WriteRow(p)
      <4>1. p.id # NoId
        BY <3>2 DEF WriteRow, IdentityTypeOK
      <4>2. CASE rowId \in {NoId, p.id}
        <5>1. idsGiven \subseteq {p.id}
          <6>1. NoId \notin idsGiven
            BY IdentityAssumption DEF IdentityTypeOK, NoId
          <6>2. QED
            BY <4>2, <6>1
        <5>2. rowId' = p.id /\ idsGiven' = {p.id}
          BY <3>2, <4>2, <5>1 DEF WriteRow
        <5>3. nodeId' \in {NoId, p.id}
          BY <3>2, <4>2 DEF WriteRow, Answered
        <5>4. QED
          BY <5>2, <5>3
      <4>3. CASE rowId \notin {NoId, p.id}
        BY <3>2, <4>3 DEF WriteRow, Answered
      <4>4. QED
        BY <4>2, <4>3
    <3>3. QED
      BY <2>3, <3>1, <3>2 DEF PostStep
  <2>4. CASE ChallengeStep \/ UNCHANGED identityVars
    BY <2>4 DEF ChallengeStep, Generate, Outdate, VerifyReads, Cleanup, Verified, NotVerified,
       identityVars
  <2>5. QED
    BY <2>2, <2>3, <2>4 DEF IdentityNext
<1>3. QED
  BY <1>1, <1>2, IdentityTypeCorrect, PTL DEF IdentitySpec
=============================================================================
