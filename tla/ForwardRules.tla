---------------------------- MODULE ForwardRules ----------------------------
(***************************************************************************)
(* The routing rules of mysqlda: which MySQL group ("instance") owns which *)
(* core business object ("library"), which correlated object is bound to   *)
(* which library, how both are kept in memory and in append-only save      *)
(* files, and how they survive the death of the worker, a restart and the  *)
(* on-line reload of the configuration.                                    *)
(*                                                                         *)
(* The worker is single-threaded: a request handler runs to its end before *)
(* the next event, so a handler is one action; only the death of the       *)
(* process can cut one short.  LoadConfig and ReloadConfig are one action  *)
(* per turn of their loops, with "phase" keeping everything else out.      *)
(***************************************************************************)
EXTENDS SerialRanges, SaveFile, FiniteSets

CONSTANTS
  Libraries,    \* core business objects a client may select
  Instances,    \* MySQL groups a configuration may name
  Classes,      \* classes of correlated objects
  Objects,      \* correlated objects
  None,         \* a NULL pointer
  Confs,        \* the configurations an operator may write
  HashOf,       \* CalcHash of every library name
  Faults,       \* "open": open() of a save file may fail;
                \* "cut": a kill may land between two writes
  MaxKills,     \* bound on the deaths of the worker
  MaxPower      \* bound on the total weight

ASSUME RulesAssumption ==
  /\ None \notin Instances \cup Libraries
  /\ Confs # {}
  /\ \A c \in Confs : c \in Seq(Instances) /\ c # <<>> /\ IsInjective(c)
  /\ IsFiniteSet(Libraries)
  /\ HashOf \in [Libraries -> Nat]
  /\ Faults \subseteq {"open", "cut"}
  /\ MaxKills \in Nat
  /\ MaxPower \in Nat

VARIABLES
  phase,        \* "down", "replay" (LoadConfig), "up", "reload" (ReloadConfig)
  pos,          \* records replayed, or configuration entries reloaded
  groups,       \* the groups in the order of the serial-range tree
  power,        \* their weights
  begin,        \* their serial_range_begin
  total,        \* total_power
  library,      \* the library tree: owner of each library, or None
  damaged,      \* whether the library tree still links a node that was freed
  bound,        \* the correlated-object trees: library of each <<class, object>>, or None
  conf,         \* the configuration file: its groups in order
  save,         \* the library save file
  csave,        \* the save file of each class
  routed,       \* history: the groups each library was bridged to
  acked,        \* history: the libraries a "set" of each object was answered OK for
  served,       \* history: the libraries a selection by each object was served from
  base,         \* history: weight of each group but for the libraries assigned
  kills         \* history: deaths of the worker

memory == <<pos, groups, power, begin, total, library, damaged, bound, base>>
disk   == <<conf, save, csave>>
ghosts == <<routed, acked, served>>
vars   == <<phase, memory, disk, ghosts, kills>>

LibraryRecord == [library : Libraries, instance : Instances]
ObjectRecord  == [object : Objects, library : Libraries]

Correlated == Classes \X Objects

NoLibraries == [l \in Libraries |-> None]
NoObjects   == [x \in Correlated |-> None]
-----------------------------------------------------------------------------
Init ==
  /\ phase = "down" /\ pos = 0
  /\ groups = <<>> /\ power = <<>> /\ begin = <<>> /\ total = 0 /\ base = <<>>
  /\ library = NoLibraries /\ damaged = FALSE /\ bound = NoObjects
  /\ conf \in Confs
  /\ save = EmptyFile
  /\ csave = [c \in Classes |-> EmptyFile]
  /\ routed = [l \in Libraries |-> {}]
  /\ acked = [x \in Correlated |-> {}]
  /\ served = [x \in Correlated |-> {}]
  /\ kills = 0

(* The process ends: nothing of its memory is left. *)
Exit ==
  /\ phase' = "down" /\ pos' = 0
  /\ groups' = <<>> /\ power' = <<>> /\ begin' = <<>> /\ total' = 0 /\ base' = <<>>
  /\ library' = NoLibraries /\ damaged' = FALSE /\ bound' = NoObjects
-----------------------------------------------------------------------------
(* LoadConfig: the groups of the configuration, one unit of weight each.   *)
StartWorker ==
  /\ phase = "down"
  /\ phase' = "replay"
  /\ pos' = 0
  /\ groups' = conf
  /\ power' = [k \in DOMAIN conf |-> 1]
  /\ base' = [k \in DOMAIN conf |-> 1]
  /\ begin' = [k \in DOMAIN conf |-> k - 1]
  /\ total' = Len(conf)
  /\ UNCHANGED <<library, damaged, bound, disk, ghosts, kills>>

(* Mutant: the begins are left alone. *)
IncreasePowerOnly(this) ==
  LET p == IncreasedPower(power, this)
  IN  power' = p /\ begin' = begin /\ total' = TotalOf(p)

(* IncreaseForwardInstanceTreeNodePower. *)
IncreasePower(this) ==
  LET p == IncreasedPower(power, this)
  IN  /\ power' = p
      /\ begin' = BeginsOf(p)
      /\ total' = TotalOf(p)

PowerFits ==
  /\ total + Len(groups) - 1 <= MaxPower
  /\ \A k \in DOMAIN power : power[k] <= MaxPower

(* One turn of the loop over the library save file. *)
Replayable(r) == r.instance \in Range(groups) /\ library[r.library] = None

ReplayRecord ==
  /\ phase = "replay" /\ pos < Len(save.records) /\ PowerFits
  /\ LET r == save.records[pos + 1]
     IN  /\ Replayable(r)
         /\ library' = [library EXCEPT ![r.library] = r.instance]
         /\ \E k \in DOMAIN groups : groups[k] = r.instance /\ IncreasePower(k)
  /\ pos' = pos + 1
  /\ UNCHANGED <<phase, groups, damaged, bound, base, disk, ghosts, kills>>

(* A file of a class loads when its words pair up, every library it names  *)
(* is in the library tree and no object comes twice.                       *)
ClassLoads(c) ==
  /\ csave[c].tail # "garbled"
  /\ \A k \in DOMAIN csave[c].records : library[csave[c].records[k].library] # None
  /\ \A j, k \in DOMAIN csave[c].records :
       csave[c].records[j].object = csave[c].records[k].object => j = k

BoundBy(x) ==
  {r.library : r \in {s \in Range(csave[x[1]].records) : s.object = x[2]}}

FilesRead == phase = "replay" /\ pos = Len(save.records)

(* Mutant: the object trees are not filled. *)
FinishLoadNoObjects ==
  /\ FilesRead /\ save.tail # "garbled" /\ \A c \in Classes : ClassLoads(c)
  /\ phase' = "up" /\ pos' = 0
  /\ UNCHANGED <<groups, power, begin, total, library, damaged, bound, base,
                 disk, ghosts, kills>>

FinishLoad ==
  /\ FilesRead
  /\ save.tail # "garbled"
  /\ \A c \in Classes : ClassLoads(c)
  /\ phase' = "up" /\ pos' = 0
  /\ bound' = [x \in Correlated |->
                 IF BoundBy(x) = {} THEN None ELSE CHOOSE l \in BoundBy(x) : TRUE]
  /\ UNCHANGED <<groups, power, begin, total, library, damaged, base, disk, ghosts, kills>>

(* LoadConfig returns -1: worker() unloads and exits. *)
RejectRecord ==
  /\ phase = "replay" /\ pos < Len(save.records)
  /\ ~Replayable(save.records[pos + 1])
  /\ Exit
  /\ UNCHANGED <<disk, ghosts, kills>>

RejectFiles ==
  /\ FilesRead
  /\ save.tail = "garbled" \/ \E c \in Classes : ~ClassLoads(c)
  /\ Exit
  /\ UNCHANGED <<disk, ghosts, kills>>
-----------------------------------------------------------------------------
Assigned == {l \in Libraries : library[l] # None}

(* QueryForwardLibraryTreeNode.  The allocator keeps its free list in the  *)
(* first bytes of a freed node, which are those of its name: the walk does *)
(* not find a freed node by name any more, and when it passes one it may go*)
(* astray there and miss a library that is in the tree.  (A chunk that is  *)
(* given out again may also make a link fail, which changes nothing, or cut*)
(* off the libraries below it, which is to miss them from then on.)        *)
Astray == damaged /\ Assigned # {}

Found(l) == {library[l]} \cup (IF Astray THEN {None} ELSE {})

(* Mutant: a known library is saved once more. *)
SelectKnownSaves(l) ==
  /\ phase = "up"
  /\ \E i \in Found(l) \ {None} :
       /\ save' = Appended(save, [library |-> l, instance |-> i])
       /\ routed' = [routed EXCEPT ![l] = @ \cup {i}]
  /\ UNCHANGED <<phase, memory, conf, csave, acked, served, kills>>

(* The client of library l is sent to group i.  SelectMysqlServer may find *)
(* no server of the group that answers; the client is then not bridged, but*)
(* what the handler did before is done.                                    *)
Bridges(l, i) == {routed, [routed EXCEPT ![l] = @ \cup {i}]}

(* SelectDatabaseLibrary for a library the tree knows: when no server      *)
(* answers nothing changes here.                                           *)
SelectKnown(l) ==
  /\ phase = "up"
  /\ \E i \in Found(l) \ {None} : routed' = [routed EXCEPT ![l] = @ \cup {i}]
  /\ UNCHANGED <<phase, memory, disk, acked, served, kills>>

(* QueryForwardSerialRangeTreeNode: the place of the group found, or 0 for *)
(* NULL.  In a table that does not tile the walk may miss the holder.      *)
Queried(h) ==
  LET found == Holders(begin, power, h)
  IN  IF found # {} /\ Tiles(begin, power, total) THEN found ELSE found \cup {0}

(* SelectDatabaseLibrary for a new library: hash, link, shift the weights, *)
(* append to the save file.                                                *)
NewLibrary(l, k) ==
  /\ phase = "up" /\ None \in Found(l) /\ PowerFits
  /\ total # 0
  /\ k \in Queried(HashOf[l] % total)

LinkLibrary(l, k) ==
  /\ library' = [library EXCEPT ![l] = groups[k]]
  /\ IncreasePower(k)

(* Mutant: nothing is saved. *)
SelectNewUnsaved(l) ==
  /\ \E k \in DOMAIN groups :
       /\ NewLibrary(l, k)
       /\ LinkLibrary(l, k)
       /\ routed' \in Bridges(l, groups[k])
  /\ UNCHANGED <<phase, pos, groups, damaged, bound, base, disk, acked, served, kills>>

SelectNew(l) ==
  /\ \E k \in DOMAIN groups :
       /\ NewLibrary(l, k)
       /\ LinkLibrary(l, k)
       /\ save' = Appended(save, [library |-> l, instance |-> groups[k]])
       /\ routed' \in Bridges(l, groups[k])
  /\ UNCHANGED <<phase, pos, groups, damaged, bound, base, conf, csave, acked, served, kills>>

(* open() fails: the weights stay shifted (those of all groups when the    *)
(* query yielded NULL), the node is freed but stays linked, the client gets*)
(* an error.                                                               *)
SelectNewOpenFails(l) ==
  /\ "open" \in Faults
  /\ \E k \in 0..Len(groups) : NewLibrary(l, k) /\ IncreasePower(k)
  /\ damaged' = TRUE
  /\ UNCHANGED <<phase, pos, groups, library, bound, base, disk, ghosts, kills>>

(* No group was found for the serial number: half a record is in the file  *)
(* when strlen() of the NULL group's name kills the worker.  (A kill that  *)
(* comes before it leaves less of the record, or nothing: see Kill.)       *)
SelectNewNull(l) ==
  /\ NewLibrary(l, 0)
  /\ kills < MaxKills
  /\ save' = TornBy(save)
  /\ kills' = kills + 1
  /\ Exit
  /\ UNCHANGED <<conf, csave, ghosts>>

(* The remainder by a total of zero is taken. *)
SelectByZero(l) ==
  /\ phase = "up" /\ None \in Found(l) /\ total = 0
  /\ kills < MaxKills
  /\ kills' = kills + 1
  /\ Exit
  /\ UNCHANGED <<disk, ghosts>>
-----------------------------------------------------------------------------
(* SetDatabaseCorrelObject.  Every path through the last block returns 0:  *)
(* the client is answered OK.                                              *)
Ack(c, o, l) == acked' = [acked EXCEPT ![<<c, o>>] = @ \cup {l}]

(* Mutants: the library is not looked for; an object is bound anew. *)
SetCorrelUnchecked(c, o, l) ==
  /\ phase = "up" /\ bound[<<c, o>>] = None
  /\ csave' = [csave EXCEPT ![c] = Appended(@, [object |-> o, library |-> l])]
  /\ bound' = [bound EXCEPT ![<<c, o>>] = l]
  /\ Ack(c, o, l)
  /\ UNCHANGED <<phase, pos, groups, power, begin, total, library, damaged, base,
                 conf, save, routed, served, kills>>

SetCorrelAnew(c, o, l) ==
  /\ phase = "up" /\ Found(l) # {None}
  /\ bound[<<c, o>>] # None
  /\ bound' = [bound EXCEPT ![<<c, o>>] = l]
  /\ Ack(c, o, l)
  /\ UNCHANGED <<phase, pos, groups, power, begin, total, library, damaged, base,
                 disk, routed, served, kills>>

SetCorrel(c, o, l) ==
  /\ phase = "up" /\ Found(l) # {None}
  /\ bound[<<c, o>>] = None
  /\ csave' = [csave EXCEPT ![c] = Appended(@, [object |-> o, library |-> l])]
  /\ bound' = [bound EXCEPT ![<<c, o>>] = l]
  /\ Ack(c, o, l)
  /\ UNCHANGED <<phase, pos, groups, power, begin, total, library, damaged, base,
                 conf, save, routed, served, kills>>

SetCorrelOpenFails(c, o, l) ==
  /\ "open" \in Faults
  /\ phase = "up" /\ Found(l) # {None}
  /\ bound[<<c, o>>] = None
  /\ Ack(c, o, l)
  /\ UNCHANGED <<phase, memory, disk, routed, served, kills>>

SetCorrelAgain(c, o, l) ==
  /\ phase = "up" /\ Found(l) # {None}
  /\ bound[<<c, o>>] # None
  /\ Ack(c, o, l)
  /\ UNCHANGED <<phase, memory, disk, routed, served, kills>>

(* SelectDatabaseLibraryByCorrelObject selects the library of a bound      *)
(* object; the paths through SelectDatabaseLibrary that do not find it are *)
(* those of a direct selection.                                            *)
SelectByCorrel(c, o) ==
  /\ phase = "up" /\ bound[<<c, o>>] # None
  /\ LET l == bound[<<c, o>>]
     IN  /\ \E i \in Found(l) \ {None} : routed' = [routed EXCEPT ![l] = @ \cup {i}]
         /\ served' = [served EXCEPT ![<<c, o>>] = @ \cup {l}]
  /\ UNCHANGED <<phase, memory, disk, acked, kills>>
-----------------------------------------------------------------------------
(* The operator adds groups to the configuration file; groups that save    *)
(* records may name are not taken out (README 4.4.1).                      *)
EditConf ==
  /\ phase # "reload"
  /\ \E c \in Confs : Range(conf) \subseteq Range(c) /\ c # conf /\ conf' = c
  /\ UNCHANGED <<phase, memory, save, csave, ghosts, kills>>

(* ReloadConfig: a new group starts with as much weight as all the others. *)
BeginReload ==
  /\ phase = "up"
  /\ phase' = "reload" /\ pos' = 0
  /\ UNCHANGED <<groups, power, begin, total, library, damaged, bound, base,
                 disk, ghosts, kills>>

ReloadKnownGroup ==
  /\ phase = "reload" /\ pos < Len(conf)
  /\ conf[pos + 1] \in Range(groups)
  /\ pos' = pos + 1
  /\ UNCHANGED <<phase, groups, power, begin, total, library, damaged, bound, base,
                 disk, ghosts, kills>>

(* Mutant: the new group is put last and given no range. *)
ReloadNoRange ==
  /\ phase = "reload" /\ pos < Len(conf)
  /\ conf[pos + 1] \notin Range(groups)
  /\ 2 * total <= MaxPower
  /\ groups' = Append(groups, conf[pos + 1])
  /\ power' = Append(power, total)
  /\ total' = ToULong(total + total)
  /\ pos' = pos + 1
  /\ UNCHANGED <<phase, begin, base, library, damaged, bound, disk, ghosts, kills>>

(* The new group goes where its begin, the total, puts it in the tree. *)
ReloadNewGroup ==
  /\ phase = "reload" /\ pos < Len(conf)
  /\ conf[pos + 1] \notin Range(groups)
  /\ 2 * total <= MaxPower
  /\ \E n \in LinkPlaces(begin, total) :
       /\ groups' = InsertAt(groups, n + 1, conf[pos + 1])
       /\ power' = InsertAt(power, n + 1, total)
       /\ begin' = InsertAt(begin, n + 1, total)
       /\ base' = InsertAt(base, n + 1, total - Cardinality(Assigned))
  /\ total' = ToULong(total + total)
  /\ pos' = pos + 1
  /\ UNCHANGED <<phase, library, damaged, bound, disk, ghosts, kills>>

(* The entry of a new group has no servers, its begin is in the tree       *)
(* already, or memory runs out: what was merged before stays.              *)
ReloadFails ==
  /\ phase = "reload" /\ pos < Len(conf)
  /\ conf[pos + 1] \notin Range(groups)
  /\ phase' = "up" /\ pos' = 0
  /\ UNCHANGED <<groups, power, begin, total, library, damaged, bound, base,
                 disk, ghosts, kills>>

EndReload ==
  /\ phase = "reload" /\ pos = Len(conf)
  /\ phase' = "up" /\ pos' = 0
  /\ UNCHANGED <<groups, power, begin, total, library, damaged, bound, base,
                 disk, ghosts, kills>>
-----------------------------------------------------------------------------
(* The worker dies between two handlers: kill -9, a crash elsewhere, a     *)
(* fatal error return of _worker, a database that is away at start.        *)
Kill ==
  /\ phase # "down" /\ kills < MaxKills
  /\ kills' = kills + 1
  /\ Exit
  /\ UNCHANGED <<disk, ghosts>>

(* The worker is killed between the open and the last write of a record.   *)
KillInSelect(l) ==
  /\ "cut" \in Faults /\ kills < MaxKills
  /\ \E k \in DOMAIN groups :
       /\ NewLibrary(l, k)
       /\ save' \in CutAppends(save, [library |-> l, instance |-> groups[k]])
  /\ kills' = kills + 1
  /\ Exit
  /\ UNCHANGED <<conf, csave, ghosts>>

KillInSet(c, o, l) ==
  /\ "cut" \in Faults /\ kills < MaxKills
  /\ phase = "up" /\ Found(l) # {None} /\ bound[<<c, o>>] = None
  /\ \E f \in CutAppends(csave[c], [object |-> o, library |-> l]) :
       csave' = [csave EXCEPT ![c] = f]
  /\ kills' = kills + 1
  /\ Exit
  /\ UNCHANGED <<conf, save, ghosts>>
-----------------------------------------------------------------------------
Load == StartWorker \/ ReplayRecord \/ FinishLoad \/ RejectRecord \/ RejectFiles

Reload == BeginReload \/ ReloadKnownGroup \/ ReloadNewGroup \/ ReloadFails \/ EndReload

Request ==
  \/ \E l \in Libraries :
       \/ SelectKnown(l) \/ SelectNew(l)
       \/ SelectNewOpenFails(l) \/ SelectNewNull(l) \/ SelectByZero(l)
  \/ \E c \in Classes, o \in Objects :
       \/ SelectByCorrel(c, o)
       \/ \E l \in Libraries :
            SetCorrel(c, o, l) \/ SetCorrelOpenFails(c, o, l) \/ SetCorrelAgain(c, o, l)

Death ==
  \/ Kill
  \/ \E l \in Libraries : KillInSelect(l)
  \/ \E c \in Classes, o \in Objects, l \in Libraries : KillInSet(c, o, l)

Next == Load \/ Reload \/ Request \/ Death \/ EditConf

(* The monitor restarts a dead worker, and a running one makes progress.   *)
Fairness == WF_vars(Load) /\ WF_vars(Reload /\ phase = "reload")

Spec == Init /\ [][Next]_vars
FairSpec == Spec /\ Fairness
-----------------------------------------------------------------------------
TypeOK ==
  /\ phase \in {"down", "replay", "up", "reload"}
  /\ pos \in Nat
  /\ groups \in Seq(Instances)
  /\ power \in Seq(Nat) /\ begin \in Seq(Nat) /\ base \in Seq(Int)
  /\ Len(power) = Len(groups) /\ Len(begin) = Len(groups) /\ Len(base) = Len(groups)
  /\ total \in Nat
  /\ library \in [Libraries -> Instances \cup {None}]
  /\ damaged \in BOOLEAN
  /\ bound \in [Correlated -> Libraries \cup {None}]
  /\ conf \in Confs
  /\ save \in File(LibraryRecord)
  /\ csave \in [Classes -> File(ObjectRecord)]
  /\ routed \in [Libraries -> SUBSET Instances]
  /\ acked \in [Correlated -> SUBSET Libraries]
  /\ served \in [Correlated -> SUBSET Libraries]
  /\ kills \in 0..MaxKills

(* While the worker has a weight table, the ranges of its groups tile      *)
(* 0..total-1, whatever sequence of replays, new libraries and reloads made*)
(* them: IncreaseForwardInstanceTreeNodePower rebuilds all begins and      *)
(* ReloadConfig appends one range of the size of all others (config.c      *)
(* 52-73, 497-549).                                                        *)
RangesTile == phase # "down" => Tiles(begin, power, total)

(* Every hash value is served by exactly one group: the query of           *)
(* SelectDatabaseLibrary never yields NULL, whose name it would write at   *)
(* app.c:424 half a record later, and never depends on the shape of the    *)
(* tree (rbtree_ins.c 20-38).                                              *)
OneHolder ==
  phase # "down" =>
    \A h \in 0..total - 1 : \E k \in DOMAIN groups : Holders(begin, power, h) = {k}

(* The weight of a group exceeds its starting weight by the number of      *)
(* libraries that went elsewhere: the more libraries a group holds the less*)
(* likely it is chosen (config.c:51), and replaying the save file after a  *)
(* restart rebuilds the weights of the groups it started with.             *)
WeightsCountOthers ==
  \A k \in DOMAIN groups :
    power[k] = base[k] + Cardinality({l \in Assigned : library[l] # groups[k]})

SavedOwner(l) == {r.instance : r \in {s \in Range(save.records) : s.library = l}}

(* Between requests memory and files agree: the library tree is the set of *)
(* records of the save file and the object trees are those of the class    *)
(* files, so that a death of the worker loses no rule.                     *)
MemoryIsOnDisk ==
  phase \in {"up", "reload"} =>
    /\ \A l \in Libraries :
         SavedOwner(l) = IF library[l] = None THEN {} ELSE {library[l]}
    /\ \A x \in Correlated :
         BoundBy(x) = IF bound[x] = None THEN {} ELSE {bound[x]}

(* A library a client was bridged for is in the save file with that group  *)
(* (app.c:408-427 precedes the reply): README 569, "created ... and        *)
(* persisted into the save file".                                          *)
RoutedIsSaved == \A l \in Libraries : routed[l] \subseteq SavedOwner(l)

(* What the worker has written, the next worker can load: no duplicate     *)
(* library, no unknown group, no object of an unknown library, across the  *)
(* library file and the class files (config.c:217-254, 306-345).           *)
FilesLoad ==
  /\ save.tail # "garbled"
  /\ \A j, k \in DOMAIN save.records :
       save.records[j].library = save.records[k].library => j = k
  /\ \A r \in Range(save.records) : r.instance \in Range(conf)
  /\ \A c \in Classes :
       /\ csave[c].tail # "garbled"
       /\ \A j, k \in DOMAIN csave[c].records :
            csave[c].records[j].object = csave[c].records[k].object => j = k
       /\ \A r \in Range(csave[c].records) : SavedOwner(r.library) # {}

(* An OK to "set correl_object" means the object is bound to that library  *)
(* in the save file of its class (README 115, 534).  It does not hold: an  *)
(* object of another library, or a file that cannot be opened, is answered *)
(* OK as well (app.c:603, 627).                                            *)
AckedIsSaved == \A x \in Correlated : acked[x] \subseteq BoundBy(x)

(* Once bridged to a group a library never goes to another one, and an     *)
(* object never to another library, over deaths, reloads and restarts.     *)
LibraryRouting == INSTANCE StickyRouting
  WITH Keys <- Libraries, Targets <- Instances, route <- routed
ObjectRouting == INSTANCE StickyRouting
  WITH Keys <- Correlated, Targets <- Libraries, route <- served

LibrariesStick == LibraryRouting!Spec
ObjectsStick == ObjectRouting!Spec

(* A worker that is down comes up again (monitor.c:80: the end of the child*)
(* is watched for and it is restarted).                                    *)
ComesUpAgain == phase = "down" ~> phase = "up"
=============================================================================
