---------------------------- MODULE NodeRegistry ----------------------------
(* What the coordinator knows of the machines (backend/routes/nodes.py), kept
   twice: a row of the database and an entry of connected_nodes, in memory.
   Registration, heartbeats, the owner's switch and the periodic sync each write
   both, one after the other, with awaits in between; a restart of the
   coordinator empties the memory.  The rows of one machine are about its
   connection, its availability and its last heartbeat, which is new or more
   than five minutes old. *)
EXTENDS Naturals, FiniteSets

CONSTANTS
  Machines,
  NoEntry,           \* a machine without a row, or without an entry in memory
  RegistryEvents     \* bound: registrations, switches, restarts of the coordinator
                     \* and arrivals of other machines, together

ASSUME RegistryAssumption ==
  /\ RegistryEvents \in Nat
  /\ NoEntry \notin [conn : BOOLEAN, avail : BOOLEAN, new : BOOLEAN]

VARIABLES
  up,       \* the coordinator runs
  row,      \* Database.nodes_collection
  mem,      \* connected_nodes
  alive,    \* machines that are on
  register, \* register_node between its write and the memory
  report,   \* node_heartbeat: where it waits, with what it read
  toggle,   \* toggle_availability: where it waits, with what it decided
  sync,     \* sync_nodes_with_db: where it waits, with what it read
  grown,    \* the memory gained an entry since the pass began
  wish,     \* what the owner's last switch said, answered or cut short (history)
  undone,   \* since then the machine registered anew, or the memory was lost before
            \* it reached the row, or older news was on its way to the memory (history)
  events    \* how many of RegistryEvents there were

handlerVars == <<register, report, toggle>>
registryVars == <<up, row, mem, alive, handlerVars, sync, grown, wish, undone, events>>

Entry == [conn : BOOLEAN, avail : BOOLEAN, new : BOOLEAN]
Rows == Entry \cup {NoEntry}
Waiting == [at : {"none", "read", "write"}, avail : BOOLEAN]
NotWaiting == [at |-> "none", avail |-> FALSE]
Passes == [at : {"off", "push", "pushing", "stale", "mark", "marked", "load", "put"},
           left : SUBSET Machines, read : [Machines -> Rows]]
Nothing == [m \in Machines |-> NoEntry]
Asleep == [at |-> "off", left |-> {}, read |-> Nothing]
Known(f) == {m \in Machines : f[m] # NoEntry}

\* The types, and that the memory has no entry of a machine without a row.
RegistryTypeOK ==
  /\ up \in BOOLEAN /\ grown \in BOOLEAN
  /\ row \in [Machines -> Rows] /\ mem \in [Machines -> Rows]
  /\ alive \subseteq Machines /\ register \subseteq Machines
  /\ report \in [Machines -> Waiting] /\ toggle \in [Machines -> Waiting]
  /\ sync \in Passes
  /\ wish \in [Machines -> BOOLEAN] /\ undone \in [Machines -> BOOLEAN]
  /\ events \in 0..RegistryEvents
  /\ Known(mem) \subseteq Known(row)

RegistryInit ==
  /\ up = FALSE /\ grown = FALSE
  /\ row = Nothing /\ mem = Nothing
  /\ alive = {} /\ register = {}
  /\ report = [m \in Machines |-> NotWaiting] /\ toggle = [m \in Machines |-> NotWaiting]
  /\ sync = Asleep
  /\ wish = [m \in Machines |-> FALSE] /\ undone = [m \in Machines |-> FALSE]
  /\ events = 0

-----------------------------------------------------------------------------
Event == events < RegistryEvents /\ events' = events + 1

\* (mutant) an entry is made available, whatever the row says.
PutAvailable(m, e) ==
  /\ mem' = [mem EXCEPT ![m] = [e EXCEPT !.avail = TRUE]]
  /\ grown' = (grown \/ mem[m] = NoEntry)

\* An entry enters the memory: the sync pass that iterates over it notices.
Put(m, e) ==
  /\ mem' = [mem EXCEPT ![m] = e]
  /\ grown' = (grown \/ mem[m] = NoEntry)

\* Environment: a machine is switched on or off; other machines enter the memory.
Power(m) ==
  /\ alive' = IF m \in alive THEN alive \ {m} ELSE alive \cup {m}
  /\ up /\ UNCHANGED <<up, row, mem, handlerVars, sync, grown, wish, undone, events>>

Newcomer ==
  /\ up /\ Event
  /\ grown' = TRUE
  /\ UNCHANGED <<up, row, mem, alive, handlerVars, sync, wish, undone>>

\* Five minutes pass after the last heartbeat; whatever waited has gone on.
Ages(m) ==
  LET aged(e) == IF e = NoEntry THEN e ELSE [e EXCEPT !.new = FALSE]
  IN /\ \E f \in {row, mem} : f[m] # NoEntry /\ f[m].new
     /\ m \notin register /\ report[m] = NotWaiting /\ toggle[m] = NotWaiting
     /\ sync.read[m] = NoEntry
     /\ row' = [row EXCEPT ![m] = aged(@)]
     /\ mem' = [mem EXCEPT ![m] = aged(@)]
     /\ UNCHANGED <<up, alive, handlerVars, sync, grown, wish, undone, events>>

\* The coordinator starts, with an empty memory.
Boot ==
  /\ ~up /\ up' = TRUE
  /\ sync' = [Asleep EXCEPT !.at = "push"]
  /\ UNCHANGED <<row, mem, alive, handlerVars, grown, wish, undone, events>>

Crash ==
  /\ up /\ Event
  /\ up' = FALSE /\ mem' = Nothing /\ grown' = FALSE /\ sync' = Asleep
  /\ register' = {} /\ report' = [m \in Machines |-> NotWaiting]
  /\ toggle' = [m \in Machines |-> NotWaiting]
  /\ wish' = [m \in Machines |-> IF toggle[m].at = "write" THEN toggle[m].avail ELSE wish[m]]
  /\ undone' = [m \in Machines |-> undone[m] \/ (row[m] # NoEntry /\ row[m].avail # wish'[m])]
  /\ UNCHANGED <<row, alive>>

-----------------------------------------------------------------------------
\* (mutant) the memory is filled before the row is written.
RegisterUnwritten(m) ==
  /\ up /\ m \in alive /\ m \notin register
  /\ Event
  /\ register' = register \cup {m}
  /\ undone' = [undone EXCEPT ![m] = @ \/ wish[m]]
  /\ UNCHANGED <<up, row, mem, alive, report, toggle, sync, grown, wish>>

\* register_node writes the row, unavailable as every agent sends it ...
Register(m) ==
  /\ up /\ m \in alive /\ m \notin register
  /\ Event
  /\ row' = [row EXCEPT ![m] = [conn |-> TRUE, avail |-> FALSE, new |-> TRUE]]
  /\ register' = register \cup {m}
  /\ undone' = [undone EXCEPT ![m] = @ \/ wish[m]]
  /\ UNCHANGED <<up, mem, alive, report, toggle, sync, grown, wish>>

\* ... and then the memory.
RegisterCached(m) ==
  /\ m \in register
  /\ register' = register \ {m}
  /\ Put(m, [conn |-> TRUE, avail |-> FALSE, new |-> TRUE])
  /\ UNCHANGED <<up, row, alive, report, toggle, sync, wish, undone, events>>

\* (mutant) a machine that was marked disconnected has to register again.
BeatIfConnected(m) ==
  /\ up /\ m \in alive /\ report[m].at = "none" /\ mem[m] # NoEntry /\ mem[m].conn
  /\ mem' = [mem EXCEPT ![m].new = TRUE]
  /\ report' = [report EXCEPT ![m] = [NotWaiting EXCEPT !.at = "write"]]
  /\ UNCHANGED <<up, row, alive, register, toggle, sync, grown, wish, undone, events>>

\* node_heartbeat of a machine in memory: the entry first.
Beat(m) ==
  /\ up /\ m \in alive /\ report[m].at = "none" /\ mem[m] # NoEntry
  /\ mem' = [mem EXCEPT ![m].conn = TRUE, ![m].new = TRUE]
  /\ report' = [report EXCEPT ![m] = [NotWaiting EXCEPT !.at = "write"]]
  /\ UNCHANGED <<up, row, alive, register, toggle, sync, grown, wish, undone, events>>

\* Of one that is not: the row is read ...
BeatReads(m) ==
  /\ up /\ m \in alive /\ report[m].at = "none" /\ mem[m] = NoEntry /\ row[m] # NoEntry
  /\ report' = [report EXCEPT ![m] = [at |-> "read", avail |-> row[m].avail]]
  /\ UNCHANGED <<up, row, mem, alive, register, toggle, sync, grown, wish, undone, events>>

\* ... and an entry made of it, which replaces one that came meanwhile.
BeatLoads(m) ==
  /\ report[m].at = "read"
  /\ Put(m, [conn |-> TRUE, avail |-> report[m].avail, new |-> TRUE])
  /\ report' = [report EXCEPT ![m] = [NotWaiting EXCEPT !.at = "write"]]
  /\ UNCHANGED <<up, row, alive, register, toggle, sync, wish, undone, events>>

\* Then the row: connected, and the time of this heartbeat.
BeatSaved(m) ==
  /\ report[m].at = "write"
  /\ row' = [row EXCEPT ![m].conn = TRUE, ![m].new = TRUE]
  /\ report' = [report EXCEPT ![m] = NotWaiting]
  /\ UNCHANGED <<up, mem, alive, register, toggle, sync, grown, wish, undone, events>>

-----------------------------------------------------------------------------
\* toggle_availability: the opposite of the row ...
ToggleReads(m) ==
  /\ up /\ row[m] # NoEntry /\ toggle[m].at = "none"
  /\ Event
  /\ toggle' = [toggle EXCEPT ![m] = [NotWaiting EXCEPT !.at = "read", !.avail = ~row[m].avail]]
  /\ UNCHANGED <<up, row, mem, alive, register, report, sync, grown, wish, undone>>

\* ... is written in the row ...
ToggleWrites(m) ==
  /\ toggle[m].at = "read"
  /\ row' = [row EXCEPT ![m].avail = toggle[m].avail]
  /\ toggle' = [toggle EXCEPT ![m].at = "write"]
  /\ UNCHANGED <<up, mem, alive, register, report, sync, grown, wish, undone, events>>

\* What is on its way to the memory, and says something else than the switch: the
\* entry of a registration, or one made of a row that was read before.
OlderOnItsWay(m, avail) ==
  \/ m \in register /\ avail
  \/ report[m].at = "read" /\ report[m].avail # avail
  \/ sync.at = "put" /\ m \in sync.left /\ sync.read[m].avail # avail

\* ... then in the entry, if there is one, and the owner is told.
ToggleCached(m) ==
  /\ toggle[m].at = "write"
  /\ mem' = IF mem[m] = NoEntry THEN mem ELSE [mem EXCEPT ![m].avail = toggle[m].avail]
  /\ wish' = [wish EXCEPT ![m] = toggle[m].avail]
  /\ undone' = [undone EXCEPT ![m] = OlderOnItsWay(m, toggle[m].avail)]
  /\ toggle' = [toggle EXCEPT ![m] = NotWaiting]
  /\ UNCHANGED <<up, row, alive, register, report, sync, grown, events>>

-----------------------------------------------------------------------------
(* sync_nodes_with_db, every 30 seconds: entries to rows, one await each; then
   the stale rows; then the rows that have no entry. *)

\* A pass begins: what there is to push is fixed by the iterator.
PassBegins ==
  /\ up /\ sync.at = "push"
  /\ sync' = [at |-> "pushing", left |-> Known(mem), read |-> Nothing]
  /\ grown' = FALSE
  /\ UNCHANGED <<up, row, mem, alive, handlerVars, wish, undone, events>>

\* The iterator finds that the memory has grown: the pass ends with an error.
PassAborts ==
  /\ sync.at = "pushing" /\ sync.read = Nothing /\ grown
  /\ sync' = [Asleep EXCEPT !.at = "push"]
  /\ UNCHANGED <<up, row, mem, alive, handlerVars, grown, wish, undone, events>>

\* The next entry is read ...
PushReads(m) ==
  /\ sync.at = "pushing" /\ sync.read = Nothing /\ ~grown /\ m \in sync.left
  /\ sync' = [sync EXCEPT !.left = @ \ {m}, !.read[m] = mem[m]]
  /\ UNCHANGED <<up, row, mem, alive, handlerVars, grown, wish, undone, events>>

\* (mutant) the availability is not among the fields that are pushed.
PushConnection(m) ==
  /\ sync.at = "pushing" /\ sync.read[m] # NoEntry
  /\ row' = [row EXCEPT ![m] = [sync.read[m] EXCEPT !.avail = row[m].avail]]
  /\ sync' = [sync EXCEPT !.read = Nothing]
  /\ UNCHANGED <<up, mem, alive, handlerVars, grown, wish, undone, events>>

\* ... and later written in its row.
PushWrites(m) ==
  /\ sync.at = "pushing" /\ sync.read[m] # NoEntry
  /\ row' = [row EXCEPT ![m] = sync.read[m]]
  /\ sync' = [sync EXCEPT !.read = Nothing]
  /\ UNCHANGED <<up, mem, alive, handlerVars, grown, wish, undone, events>>

\* The rows that say connected with an old heartbeat are read.
StaleRead ==
  /\ sync.at = "pushing" /\ sync.read = Nothing /\ ~grown /\ sync.left = {}
  /\ sync' = [at |-> "mark", read |-> Nothing,
              left |-> {m \in Known(row) : row[m].conn /\ ~row[m].new}]
  /\ UNCHANGED <<up, row, mem, alive, handlerVars, grown, wish, undone, events>>

\* Each is marked disconnected in its row ...
MarkRow(m) ==
  /\ sync.at = "mark" /\ m \in sync.left
  /\ row' = [row EXCEPT ![m].conn = FALSE]
  /\ sync' = [sync EXCEPT !.at = "marked", !.read[m] = row'[m]]
  /\ UNCHANGED <<up, mem, alive, handlerVars, grown, wish, undone, events>>

\* (mutant) a stale machine is marked in its row only.
MarkRowOnly(m) ==
  /\ sync.at = "marked" /\ sync.read[m] # NoEntry
  /\ sync' = [at |-> "mark", left |-> sync.left \ {m}, read |-> Nothing]
  /\ UNCHANGED <<up, row, mem, alive, handlerVars, grown, wish, undone, events>>

\* ... then in its entry, even if a heartbeat came in between.
MarkEntry(m) ==
  /\ sync.at = "marked" /\ sync.read[m] # NoEntry
  /\ mem' = IF mem[m] = NoEntry THEN mem ELSE [mem EXCEPT ![m].conn = FALSE]
  /\ sync' = [at |-> "mark", left |-> sync.left \ {m}, read |-> Nothing]
  /\ UNCHANGED <<up, row, alive, handlerVars, grown, wish, undone, events>>

\* The connected rows without an entry are read ...
LoadReads ==
  /\ sync.at = "mark" /\ sync.left = {}
  /\ LET missing == {m \in Known(row) : row[m].conn /\ mem[m] = NoEntry}
     IN sync' = [at |-> "put", left |-> missing,
                 read |-> [m \in Machines |-> IF m \in missing THEN row[m] ELSE NoEntry]]
  /\ UNCHANGED <<up, row, mem, alive, handlerVars, grown, wish, undone, events>>

\* ... and put in the memory, whatever is there by now; the pass is over.
LoadPuts ==
  /\ sync.at = "put"
  /\ mem' = [m \in Machines |-> IF m \in sync.left THEN sync.read[m] ELSE mem[m]]
  /\ sync' = [Asleep EXCEPT !.at = "push"]
  /\ UNCHANGED <<up, row, alive, handlerVars, grown, wish, undone, events>>

-----------------------------------------------------------------------------
BeatStep(m) == Beat(m) \/ BeatReads(m) \/ BeatLoads(m) \/ BeatSaved(m)
ToggleStep(m) == ToggleWrites(m) \/ ToggleCached(m)
HandlerStep(m) == RegisterCached(m) \/ BeatStep(m) \/ ToggleStep(m)
SyncStep ==
  \/ PassBegins \/ PassAborts \/ StaleRead \/ LoadReads \/ LoadPuts
  \/ \E m \in Machines : PushReads(m) \/ PushWrites(m) \/ MarkRow(m) \/ MarkEntry(m)
RegistryNext ==
  \/ Newcomer \/ Boot \/ Crash \/ SyncStep
  \/ \E m \in Machines :
        Power(m) \/ Ages(m) \/ Register(m) \/ ToggleReads(m) \/ HandlerStep(m)

RegistrySpec == RegistryInit /\ [][RegistryNext]_registryVars

\* A coordinator that runs goes on with each of its handlers and its sync, machines
\* that are on send their heartbeats, and time passes.
RegistryFairness ==
  /\ WF_registryVars(up /\ SyncStep)
  /\ WF_registryVars(events > 0 /\ Boot)
  /\ \A m \in Machines :
       /\ WF_registryVars(RegisterCached(m)) /\ WF_registryVars(BeatStep(m))
       /\ WF_registryVars(ToggleStep(m))
       /\ SF_registryVars(Ages(m))
RegistryFairSpec == RegistrySpec /\ RegistryFairness

-----------------------------------------------------------------------------
\* An entry says what the owner switched to, or is switching to, through every
\* heartbeat, sync pass and restart that comes after: the row it is made of may
\* have been written over by a push that was older than the switch, but not while
\* there is no entry.  Not so where the machine registered anew, the memory was
\* lost before it reached the row, or an entry with older news was already on its
\* way when the switch was answered (nodes.py toggle_availability,
\* node_heartbeat, sync_nodes_with_db).
MemoryKeepsTheSwitch ==
  \A m \in Known(mem) :
    \/ undone[m]
    \/ mem[m].avail = wish[m]
    \/ toggle[m].at = "write" /\ mem[m].avail = toggle[m].avail

\* What the owner switched to comes to stand in the row, which job
\* placement reads, and stays - unless the coordinator restarted before it did, or
\* an entry with older news was on its way, or the machine registered anew: the
\* pushes of the sync, whatever they read before the switch, and the heartbeats
\* alone do not turn it back (nodes.py toggle_availability, sync_nodes_with_db,
\* node_heartbeat).
SwitchSticks ==
  \A m \in Machines :
    <>[](row[m] # NoEntry => row[m].avail = wish[m]) \/ <>[](undone[m])

\* A machine that is off for good ends as disconnected in both copies, although
\* each is copied over the other (nodes.py sync_nodes_with_db).
SilentIsDisconnected ==
  \A m \in Machines :
    <>[](m \notin alive) => <>[](\A f \in {row, mem} : f[m] # NoEntry => ~f[m].conn)

\* A machine that stays on and was registered is connected again and again: no
\* sync pass that saw it stale turns it off for good (nodes.py node_heartbeat).
AliveIsConnected ==
  \A m \in Machines :
    <>[](m \in alive /\ row[m] # NoEntry) => []<>(row[m] # NoEntry /\ row[m].conn)
=============================================================================
