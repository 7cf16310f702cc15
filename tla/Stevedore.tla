------------------------------ MODULE Stevedore ------------------------------
(***************************************************************************)
(* The extension managers of stevedore, which the example programs under   *)
(* coding/python/stevedore load their formatters with.                     *)
(*                                                                         *)
(* A manager reads the entry points of its namespace once per process,     *)
(* loads the plugins behind them one by one (any of which may raise, and   *)
(* the failure may be logged, handed to a callback or passed on), keeps    *)
(* the survivors in a list and an index by name, and then invokes          *)
(* functions on them.  The seven manager classes differ in which plugins   *)
(* they load, how they arrange them and what they invoke.                  *)
(*                                                                         *)
(* A manager loads an entry point at most once, so an Extension is named   *)
(* by its entry point.  The process uses one manager after another; what   *)
(* they share is the class attribute ENTRY_POINT_CACHE.                    *)
(***************************************************************************)
EXTENDS Selection

CONSTANTS
    EntryPoint,     \* the entry points of the namespace
    Name,           \* what entry points may be called
    NameOf,         \* the name of each: names need not be unique
    NameLists,      \* bound: what callers pass as a list of names
    TestLists,      \* bound: what callers pass to make_test_instance
    None,
    MaxManagers     \* bound: how many managers the process makes

ASSUME NameAssumption == NameOf \in [EntryPoint -> Name]
ASSUME ListAssumption ==
    /\ NameLists \subseteq Seq(Name) \ {<<>>}
    /\ TestLists \subseteq Seq(EntryPoint) \ {<<>>}
ASSUME BoundAssumption == MaxManagers \in Nat
ASSUME NoneAssumption == None \notin EntryPoint

VARIABLES
    installed,  \* the entry points of the working set, in its order
    cache,      \* ENTRY_POINT_CACHE[namespace], or None
    mgr,        \* the manager: its class and the constructor's arguments
    stage,      \* how far its life has come
    todo,       \* entry points _load_plugins has not come to
    extensions, \* self.extensions, and while loading the list it becomes
    missing,    \* self._missing_names
    index,      \* self._extensions_by_name_cache, or None
    by_name,    \* NameDispatchExtensionManager.by_name, or None
    call,       \* the call of map that is running or was the last
    made,       \* how many managers there have been
    (* history of this manager *)
    loaded,     \* the extensions loaded, in order
    failed,     \* entry points whose failure was swallowed
    resolved    \* entry points whose code was imported

mgrVars == <<mgr, made>>
loadVars == <<todo, loaded, failed, resolved>>
listVars == <<extensions, missing, index, by_name>>
vars == <<installed, cache, stage, call, mgrVars, loadVars, listVars>>

Named == {"named", "driver", "hook"}
Checked == {"enabled", "dispatch", "namedispatch"}
Class == Named \cup Checked \cup {"extension"}

Manager ==
    [cls : Class, names : Seq(Name), name_order : BOOLEAN,
     on_failure : {"log", "callback", "raise"},
     on_missing : {"log", "raise"}, propagate : BOOLEAN, test : BOOLEAN]

NoCall == [status |-> "none", queue |-> <<>>, next |-> 1, response |-> <<>>,
           bad |-> {}, out |-> {}]

(* The name index of a list: a later extension replaces its namesake.      *)
NamesOf(exts) == {NameOf[e] : e \in In(exts)}
Last(exts, n) ==
    LET Is == {i \in 1..Len(exts) : NameOf[exts[i]] = n}
    IN  exts[CHOOSE i \in Is : \A j \in Is : j <= i]
ByName(exts) == [n \in NamesOf(exts) |-> Last(exts, n)]

TypeOK ==
    /\ installed \in Seq(EntryPoint)
    /\ cache \in Seq(EntryPoint) \cup {None}
    /\ mgr \in Manager
    /\ stage \in {"none", "loading", "ready", "raised"}
    /\ todo \in Seq(EntryPoint) /\ loaded \in Seq(EntryPoint)
    /\ extensions \in Seq(EntryPoint)
    /\ failed \in SUBSET EntryPoint /\ resolved \in SUBSET EntryPoint
    /\ missing \in SUBSET Name
    /\ \A d \in {index, by_name} :
         d = None \/ (DOMAIN d \subseteq Name /\ \A n \in DOMAIN d : d[n] \in EntryPoint)
    /\ call.status \in {"none", "running", "returned", "raised", "interrupted",
                        "NoMatches"}
    /\ call.queue \in Seq(EntryPoint) /\ call.next \in Nat
    /\ call.response \in Seq(Nat)
    /\ call.bad \in SUBSET Nat /\ call.out \in SUBSET Nat
    /\ made \in 0..MaxManagers

Init ==
    /\ installed = <<>> /\ cache = None
    /\ mgr = [cls |-> "extension", names |-> <<>>, name_order |-> FALSE,
              on_failure |-> "log", on_missing |-> "log", propagate |-> FALSE,
              test |-> FALSE]
    /\ stage = "none" /\ todo = <<>>
    /\ extensions = <<>> /\ missing = {} /\ index = None /\ by_name = None
    /\ call = NoCall /\ made = 0
    /\ loaded = <<>> /\ failed = {} /\ resolved = {}

(* A distribution is activated in the working set of the process.          *)
Activate(ep) ==
    /\ ep \notin In(installed)
    /\ installed' = Append(installed, ep)
    /\ UNCHANGED <<cache, stage, call, mgrVars, loadVars, listVars>>

(***************************************************************************)
(* Construction                                                            *)
(***************************************************************************)
(* list_entry_points: the working set is read when the namespace is first  *)
(* used, and never again.                                                  *)
list_entry_points == IF cache = None THEN installed ELSE cache

Fresh == stage \in {"none", "ready", "raised"} /\ call.status # "running"

Blank ==
    /\ missing' = {} /\ index' = None /\ by_name' = None
    /\ failed' = {} /\ resolved' = {} /\ call' = NoCall
    /\ made' = made + 1

(* A driver or a hook does not propagate what its plugin raises.           *)
Quiet(m) == m.cls \in {"driver", "hook"} => ~m.propagate

(* The constructors.  A driver or a hook takes one name and never          *)
(* propagates; a driver without a failure callback gets one that raises.   *)
Construct(m) ==
    /\ Fresh /\ made < MaxManagers
    /\ m.cls \in Named <=> m.names # <<>>
    /\ m.cls \in {"driver", "hook"} => Len(m.names) = 1
    /\ Quiet(m)
    /\ m.name_order => m.cls = "named"
    /\ m.on_missing = "raise" => m.cls \in {"named", "hook"}
    /\ mgr' = IF m.cls = "driver" /\ m.on_failure = "log"
              THEN [m EXCEPT !.on_failure = "raise"] ELSE m
    /\ Blank
    /\ cache' = list_entry_points /\ todo' = list_entry_points
    /\ extensions' = <<>> /\ loaded' = <<>>
    /\ stage' = "loading"
    /\ UNCHANGED installed

(* _load_plugins leaves entry point Head(todo) behind.                     *)
Passed ==
    /\ todo' = Tail(todo)
    /\ UNCHANGED <<cache, installed, mgrVars, call, missing, index, by_name>>

(* NamedExtensionManager._load_one_plugin looks at the name before it      *)
(* loads anything.                                                         *)
Skips(ep) == mgr.cls \in Named /\ NameOf[ep] \notin In(mgr.names)

LoadSkip ==
    /\ stage = "loading" /\ todo # <<>> /\ Skips(Head(todo))
    /\ Passed
    /\ UNCHANGED <<stage, extensions, loaded, failed, resolved>>

Resolve ==
    /\ stage = "loading" /\ todo # <<>> /\ ~Skips(Head(todo))
    /\ resolved' = resolved \cup {Head(todo)}

(* The plugin loads, and is invoked if the caller asked for it.            *)
LoadOne ==
    /\ Resolve /\ Passed
    /\ extensions' = Append(extensions, Head(todo))
    /\ loaded' = Append(loaded, Head(todo))
    /\ UNCHANGED <<stage, failed>>

(* EnabledExtensionManager._load_one_plugin: check_func says no.           *)
LoadDisabled ==
    /\ mgr.cls \in Checked
    /\ Resolve /\ Passed
    /\ UNCHANGED <<stage, extensions, loaded, failed>>

(* An Exception: logged, or handed to the callback, which may raise.       *)
LoadFails ==
    /\ Resolve /\ Passed
    /\ \/ /\ mgr.on_failure \in {"log", "callback"}
          /\ failed' = failed \cup {Head(todo)} /\ UNCHANGED stage
       \/ /\ mgr.on_failure = "raise"
          /\ stage' = "raised" /\ UNCHANGED failed
    /\ UNCHANGED <<extensions, loaded>>

(* KeyboardInterrupt and AssertionError are raised again in any case.      *)
LoadInterrupted ==
    /\ Resolve /\ Passed
    /\ stage' = "raised"
    /\ UNCHANGED <<extensions, loaded, failed>>

(* DriverManager._init_plugins insists on one extension.                   *)
OneDriver(m, exts) == m.cls = "driver" => Len(exts) = 1

InitPluginsOldIndex(m, exts, miss) ==
    /\ missing' = miss
    /\ IF m.name_order
       THEN LET found == Keep(m.names, In(m.names) \ miss)
            IN  /\ index' = [n \in NamesOf(exts) |->
                              (CHOOSE e \in In(exts) : NameOf[e] = n)]
                /\ extensions' = [i \in 1..Len(found) |-> ByName(exts)[found[i]]]
       ELSE index' = None /\ extensions' = exts
    /\ by_name' = IF m.cls = "namedispatch" THEN ByName(exts) ELSE None
    /\ stage' = IF ~OneDriver(m, exts) THEN "raised" ELSE "ready"

(* _init_plugins of all classes, on the list exts.  A NamedExtensionManager*)
(* that keeps the order of its names builds the index from the list, and   *)
(* then the list from the index; a DriverManager insists on one extension. *)
InitPlugins(m, exts, miss) ==
    /\ missing' = miss
    /\ IF m.name_order
       THEN LET found == Keep(m.names, In(m.names) \ miss)
            IN  /\ index' = ByName(exts)
                /\ extensions' = [i \in 1..Len(found) |-> ByName(exts)[found[i]]]
       ELSE index' = None /\ extensions' = exts
    /\ by_name' = IF m.cls = "namedispatch" THEN ByName(exts) ELSE None
    /\ stage' = IF ~OneDriver(m, exts) THEN "raised" ELSE "ready"

FinishListed ==
    /\ stage = "loading" /\ todo = <<>>
    /\ LET miss == IF mgr.cls \in Named
                   THEN In(mgr.names) \ NamesOf(cache) ELSE {}
       IN  IF miss # {} /\ mgr.on_missing = "raise"
           THEN /\ missing' = miss /\ stage' = "raised"
                /\ UNCHANGED <<extensions, index, by_name>>
           ELSE /\ InitPlugins([mgr EXCEPT !.name_order = FALSE], extensions,
                               miss)
    /\ UNCHANGED <<cache, installed, call, mgrVars, loadVars>>

(* The end of __init__: the names nobody was loaded for are missing, and   *)
(* the callback told of them may raise.                                    *)
Finish ==
    /\ stage = "loading" /\ todo = <<>>
    /\ LET miss == IF mgr.cls \in Named
                   THEN In(mgr.names) \ NamesOf(extensions) ELSE {}
       IN  IF miss # {} /\ mgr.on_missing = "raise"
           THEN /\ missing' = miss /\ stage' = "raised"
                /\ UNCHANGED <<extensions, index, by_name>>
           ELSE InitPlugins(mgr, extensions, miss)
    /\ UNCHANGED <<cache, installed, call, mgrVars, loadVars>>

(* make_test_instance: a manager of given extensions, nothing loaded.  A   *)
(* hook or a driver made this way may propagate exceptions.                *)
TestManager(c, exts, prop) ==
    [cls |-> c, name_order |-> FALSE, on_failure |-> "log",
     on_missing |-> "log", propagate |-> prop, test |-> TRUE,
     names |-> IF c \in Named THEN [i \in 1..Len(exts) |-> NameOf[exts[i]]]
               ELSE <<>>]

(* DriverManager.make_test_instance takes one extension, not a list.       *)
DriverTest(c, exts) == c = "driver" => Len(exts) = 1

make_test_instance(c, exts, prop) ==
    /\ Fresh /\ made < MaxManagers
    /\ DriverTest(c, exts)
    /\ mgr' = TestManager(c, exts, prop)
    /\ made' = made + 1 /\ call' = NoCall
    /\ todo' = <<>> /\ loaded' = exts /\ failed' = {} /\ resolved' = {}
    /\ InitPlugins(TestManager(c, exts, prop), exts, {})
    /\ UNCHANGED <<cache, installed>>

(***************************************************************************)
(* Use                                                                     *)
(***************************************************************************)
Idle == stage = "ready" /\ call.status # "running"

BuildIndexPairs ==
    /\ Idle /\ index = None
    /\ index' = [e \in In(extensions) |-> NameOf[e]]
    /\ UNCHANGED <<installed, cache, stage, call, mgrVars, loadVars,
                   extensions, missing, by_name>>

(* __getitem__ and items build the index when they need it.                *)
BuildIndex ==
    /\ Idle /\ index = None
    /\ index' = ByName(extensions)
    /\ UNCHANGED <<installed, cache, stage, call, mgrVars, loadVars,
                   extensions, missing, by_name>>

(* What map goes through: all extensions, or for a name dispatcher those   *)
(* of the names it is given; a name it does not know is ignored.           *)
Queue(names) ==
    IF mgr.cls = "namedispatch"
    THEN LET known == Keep(names, DOMAIN by_name)
         IN  [i \in 1..Len(known) |-> by_name[known[i]]]
    ELSE extensions

(* map, map_method and the call of a DriverManager.  Without extensions    *)
(* there is nothing to call, which only the name dispatcher puts up with.  *)
map(names) ==
    /\ Idle
    /\ call' = IF extensions = <<>> /\ mgr.cls # "namedispatch"
               THEN [NoCall EXCEPT !.status = "NoMatches"]
               ELSE [NoCall EXCEPT !.status = "running",
                                   !.queue = Queue(names)]
    /\ UNCHANGED <<installed, cache, stage, mgrVars, loadVars, listVars>>

InMap ==
    /\ call.status = "running"
    /\ UNCHANGED <<installed, cache, stage, mgrVars, loadVars, listVars>>
OnNext == InMap /\ call.next <= Len(call.queue)

(* DispatchExtensionManager.map: filter_func turns the extension down, or  *)
(* raises outside the try of _invoke_one_plugin.                           *)
FilterOut ==
    /\ OnNext /\ mgr.cls = "dispatch"
    /\ \/ call' = [call EXCEPT !.next = @ + 1, !.out = @ \cup {call.next}]
       \/ call' = [call EXCEPT !.status = "interrupted"]

(* _invoke_one_plugin: func returns; raises; or raises what is no          *)
(* Exception.                                                              *)
Returns ==
    /\ OnNext
    /\ call' = [call EXCEPT !.response = Append(@, call.next),
                            !.next = @ + 1]

RaisesCounted ==
    /\ OnNext
    /\ call' = [call EXCEPT !.bad = @ \cup {call.next}, !.next = @ + 1,
                  !.response = Append(@, call.next),
                  !.status = IF mgr.propagate THEN "raised" ELSE @]

Raises ==
    /\ OnNext
    /\ call' = [call EXCEPT !.bad = @ \cup {call.next}, !.next = @ + 1,
                  !.status = IF mgr.propagate THEN "raised" ELSE @]

Interrupted == OnNext /\ call' = [call EXCEPT !.status = "interrupted"]

MapReturns ==
    /\ InMap /\ call.next > Len(call.queue)
    /\ call' = [call EXCEPT !.status = "returned"]

Load == \/ LoadSkip \/ LoadOne \/ LoadDisabled \/ LoadFails
        \/ LoadInterrupted \/ Finish
Map == FilterOut \/ Returns \/ Raises \/ Interrupted \/ MapReturns

Next ==
    \/ \E ep \in EntryPoint : Activate(ep)
    \/ \E c \in Class, ns \in NameLists \cup {<<>>}, o, p \in BOOLEAN,
          f \in {"log", "callback", "raise"}, m \in {"log", "raise"} :
         Construct([cls |-> c, names |-> ns, name_order |-> o,
                    on_failure |-> f, on_missing |-> m, propagate |-> p,
                    test |-> FALSE])
    \/ \E c \in Class, l \in TestLists, p \in BOOLEAN :
         make_test_instance(c, l, p)
    \/ BuildIndex
    \/ \E ns \in NameLists \cup {<<>>} : map(ns)
    \/ Load \/ Map

Spec == Init /\ [][Next]_vars

(***************************************************************************)
(* Properties                                                              *)
(***************************************************************************)

(* The lookup by name and the list that map goes through agree, although   *)
(* a manager that keeps the order of its names builds the index before the *)
(* list it ends up with (named.py, _init_plugins).                         *)
IndexCurrent ==
    (stage = "ready" /\ index # None) => index = ByName(extensions)

(* No code of an entry point is imported that the caller did not name:     *)
(* "to prevent undesirable code from being loaded at all".                 *)
NothingUnasked ==
    (mgr.cls \in Named /\ ~mgr.test) =>
      \A e \in resolved : NameOf[e] \in In(mgr.names)

(* Every entry point known when the namespace was first read is accounted  *)
(* for, none twice and none that came later: loaded, or its failure        *)
(* swallowed, or turned down by check_func.                                *)
NothingLost ==
    (stage = "ready" /\ ~mgr.test) =>
      /\ resolved = {e \in In(cache) : ~Skips(e)}
      /\ In(loaded) \cup failed \subseteq resolved
      /\ mgr.cls \notin Checked => In(loaded) \cup failed = resolved
      /\ In(loaded) \cap failed = {}
      /\ \A i, j \in 1..Len(loaded) : i # j => loaded[i] # loaded[j]

(* Keeping the order of the names drops a loaded extension only for a      *)
(* namesake that was loaded after it, and none otherwise.                  *)
DropsDuplicates ==
    stage = "ready" =>
      \A i \in 1..Len(loaded) : loaded[i] \notin In(extensions) =>
        /\ mgr.name_order
        /\ \E j \in i + 1..Len(loaded) :
             NameOf[loaded[j]] = NameOf[loaded[i]]

(* The list of extensions and the index by name are accounted for.         *)
ListAccounted == NothingLost /\ DropsDuplicates /\ IndexCurrent

(* A name is reported missing exactly if every entry point of that name    *)
(* failed, or there is none.                                               *)
MissingExact ==
    (stage = "ready" /\ mgr.cls \in Named /\ ~mgr.test) =>
      \A n \in In(mgr.names) :
        n \in missing <=> {e \in In(cache) : NameOf[e] = n} \subseteq failed

(* A driver manager that came up has the one driver it was asked for; and  *)
(* unless a callback swallows load failures, there was no second entry     *)
(* point of that name to choose from.                                      *)
DriverUnique ==
    (stage = "ready" /\ mgr.cls = "driver" /\ ~mgr.test) =>
      /\ Len(extensions) = 1 /\ NameOf[extensions[1]] = mgr.names[1]
      /\ mgr.on_failure = "raise" =>
           {e \in In(cache) : NameOf[e] = mgr.names[1]} = In(extensions)

(* The names a caller gives are honoured: nothing else is loaded, what is  *)
(* missing is reported, and a driver is the one asked for.                 *)
NamesHonoured == NothingUnasked /\ MissingExact /\ DriverUnique

(* map goes through its extensions in order; what did not raise and was    *)
(* not filtered out is in the response, and unless exceptions propagate    *)
(* one that raised kept nobody from its turn.                              *)
MapInOrder ==
    /\ In(call.response) = 1..call.next - 1 \ (call.bad \cup call.out)
    /\ \A i, j \in 1..Len(call.response) :
         i < j => call.response[i] < call.response[j]
    /\ call.status = "returned" => call.next = Len(call.queue) + 1
    /\ call.status = "raised" => mgr.propagate /\ call.bad = {call.next - 1}
    /\ mgr.propagate /\ call.status # "raised" => call.bad = {}

(* An exception of a hook or a driver is logged and ignored.               *)
QuietManagers ==
    (mgr.cls \in {"driver", "hook"} /\ ~mgr.test) => call.status # "raised"

(* Nobody misses a turn because of somebody else, and nobody hears of an   *)
(* exception who asked not to.                                             *)
MapFair == MapInOrder /\ QuietManagers
=============================================================================
