--------------------------- MODULE Stevedore_proofs ---------------------------
(***************************************************************************)
(* Proofs about Stevedore, for any entry points, names (also names that    *)
(* several entry points share) and sequences of managers.  LoadInv says of *)
(* the loop of _load_plugins what has become of the entry points it has    *)
(* passed; that none is met twice rests on the working set having none     *)
(* twice when the cache was filled.                                        *)
(***************************************************************************)
EXTENDS Stevedore, Selection_proofs, TLAPS

NoDup(s) == \A i, j \in 1..Len(s) : i # j => s[i] # s[j]

(* The entry points of the process.                                        *)
KnownInv ==
    /\ installed \in Seq(EntryPoint) /\ NoDup(installed)
    /\ cache = None \/ (cache \in Seq(EntryPoint) /\ NoDup(cache))

(* What the constructors let through.                                      *)
ManagerInv ==
    /\ stage = "loading" => ~mgr.test
    /\ ~mgr.test =>
         /\ mgr.cls \in {"driver", "hook"}
              => Len(mgr.names) = 1 /\ ~mgr.propagate
         /\ mgr.name_order => mgr.cls = "named"

(* What has become of the entry points the loop has passed.                *)
LoadInv ==
    (stage \in {"loading", "ready"} /\ ~mgr.test) =>
      /\ cache \in Seq(EntryPoint) /\ NoDup(cache)
      /\ todo \in Seq(EntryPoint) /\ NoDup(todo) /\ In(todo) \subseteq In(cache)
      /\ resolved = {e \in In(cache) \ In(todo) : ~Skips(e)}
      /\ loaded \in Seq(EntryPoint) /\ NoDup(loaded)
      /\ In(loaded) \cup failed \subseteq resolved
      /\ In(loaded) \cap failed = {}
      /\ mgr.cls \notin Checked => In(loaded) \cup failed = resolved
      /\ mgr.on_failure = "raise" => failed = {}
      /\ stage = "loading" => extensions = loaded

(* What the manager has made of it.                                        *)
ReadyInv ==
    (stage = "ready" /\ ~mgr.test) =>
      /\ todo = <<>>
      /\ ~mgr.name_order => extensions = loaded
      /\ mgr.cls \in Named => missing = In(mgr.names) \ NamesOf(loaded)
      /\ mgr.cls = "driver" => Len(extensions) = 1

IndInv == KnownInv /\ ManagerInv /\ LoadInv /\ ReadyInv /\ NothingUnasked

----------------------------------------------------------------------------
(* Sequences without duplicates                                            *)

LEMMA Taken ==
    ASSUME NEW S, NEW s \in Seq(S), s # <<>>, NoDup(s)
    PROVE  /\ Head(s) \in S /\ Head(s) \in In(s)
           /\ Tail(s) \in Seq(S) /\ NoDup(Tail(s))
           /\ In(Tail(s)) = In(s) \ {Head(s)}
<1>1. /\ Head(s) = s[1] /\ Tail(s) \in Seq(S) /\ Len(Tail(s)) = Len(s) - 1
      /\ \A i \in 1..Len(s) - 1 : Tail(s)[i] = s[i + 1]
      /\ Len(s) \in Nat /\ Len(s) > 0
  OBVIOUS
<1>2. NoDup(Tail(s))
  BY <1>1 DEF NoDup
<1>3. \A x \in In(s) : x = Head(s) \/ x \in In(Tail(s))
  <2> SUFFICES ASSUME NEW i \in 1..Len(s), s[i] # Head(s)
               PROVE  s[i] \in In(Tail(s))
    BY DEF In
  <2>1. i - 1 \in 1..Len(Tail(s)) /\ Tail(s)[i - 1] = s[i]
    BY <1>1
  <2> QED
    BY <2>1 DEF In
<1>4. \A x \in In(Tail(s)) : x \in In(s) /\ x # Head(s)
  BY <1>1 DEF In, NoDup
<1>5. Head(s) \in In(s) /\ Head(s) \in S
  BY <1>1 DEF In
<1> QED
  BY <1>1, <1>2, <1>3, <1>4, <1>5

LEMMA Added ==
    ASSUME NEW S, NEW s \in Seq(S), NEW e \in S, NoDup(s), e \notin In(s)
    PROVE  /\ Append(s, e) \in Seq(S) /\ NoDup(Append(s, e))
           /\ In(Append(s, e)) = In(s) \cup {e}
<1> DEFINE t == Append(s, e)
<1>1. /\ t \in Seq(S) /\ Len(t) = Len(s) + 1 /\ Len(s) \in Nat
      /\ \A i \in 1..Len(s) : t[i] = s[i]
      /\ t[Len(s) + 1] = e
  OBVIOUS
<1>2. \A i \in 1..Len(t) : i \in 1..Len(s) \/ i = Len(s) + 1
  BY <1>1
<1>3. \A i \in 1..Len(s) : s[i] # e
  BY DEF In
<1> HIDE DEF t
<1>4. NoDup(t)
  BY <1>1, <1>2, <1>3 DEF NoDup
<1>5. In(t) = In(s) \cup {e}
  <2>1. \A x \in In(t) : x \in In(s) \cup {e}
    BY <1>1, <1>2 DEF In
  <2>2. \A x \in In(s) : x \in In(t)
    BY <1>1 DEF In
  <2>3. e \in In(t)
    BY <1>1 DEF In
  <2> QED
    BY <2>1, <2>2, <2>3
<1> QED
  BY <1>1, <1>4, <1>5 DEF t

LEMMA Nothing == <<>> \in Seq(EntryPoint) /\ NoDup(<<>>) /\ In(<<>>) = {}
  BY DEF NoDup, In

----------------------------------------------------------------------------
(* The steps                                                               *)

(* Invoking and looking up disturb nothing the invariant is about.         *)
LEMMA Undisturbed ==
    ASSUME IndInv,
           UNCHANGED <<cache, mgr, stage, todo, extensions, missing, loaded,
                       failed, resolved>>,
           installed' = installed \/ (installed' \in Seq(EntryPoint) /\ NoDup(installed'))
    PROVE  IndInv'
<1>1. KnownInv' /\ ManagerInv' /\ ReadyInv' /\ NothingUnasked'
  BY DEF IndInv, KnownInv, ManagerInv, ReadyInv, NothingUnasked
<1>2. LoadInv'
  BY DEF IndInv, LoadInv, Skips
<1> QED
  BY <1>1, <1>2 DEF IndInv

LEMMA ActivateStep ==
    ASSUME IndInv, NEW ep \in EntryPoint, Activate(ep) PROVE IndInv'
<1>1. installed' \in Seq(EntryPoint) /\ NoDup(installed')
  BY Added DEF IndInv, KnownInv, Activate
<1> QED
  BY <1>1, Undisturbed DEF Activate, mgrVars, loadVars, listVars

LEMMA ConstructStep ==
    ASSUME IndInv, NEW c \in Class, NEW ns \in NameLists \cup {<<>>},
           NEW o \in BOOLEAN, NEW p \in BOOLEAN,
           NEW f \in {"log", "callback", "raise"}, NEW m \in {"log", "raise"},
           Construct([cls |-> c, names |-> ns, name_order |-> o,
                      on_failure |-> f, on_missing |-> m, propagate |-> p,
                      test |-> FALSE])
    PROVE  IndInv'
<1>1. /\ mgr'.cls = c /\ mgr'.names = ns /\ mgr'.name_order = o
      /\ mgr'.propagate = p /\ mgr'.test = FALSE
  BY DEF Construct
<1>2. /\ c \in {"driver", "hook"} => Len(ns) = 1 /\ ~p
      /\ o => c = "named"
  BY DEF Construct, Quiet
<1>3. /\ cache' \in Seq(EntryPoint) /\ NoDup(cache') /\ todo' = cache'
      /\ stage' = "loading" /\ resolved' = {} /\ failed' = {}
      /\ loaded' = <<>> /\ extensions' = <<>> /\ UNCHANGED installed
  BY DEF Construct, Blank, list_entry_points, IndInv, KnownInv
<1>4. KnownInv' /\ NothingUnasked' /\ ReadyInv'
  BY <1>3 DEF IndInv, KnownInv, NothingUnasked, ReadyInv
<1>5. ManagerInv'
  BY <1>1, <1>2 DEF ManagerInv
<1>6. LoadInv'
  BY <1>3, Nothing DEF LoadInv
<1> QED
  BY <1>4, <1>5, <1>6 DEF IndInv

LEMMA TestStep ==
    ASSUME IndInv, NEW c \in Class, NEW l \in TestLists, NEW p \in BOOLEAN,
           make_test_instance(c, l, p)
    PROVE  IndInv'
<1>1. mgr'.test /\ stage' \in {"ready", "raised"} /\ UNCHANGED <<installed, cache>>
  BY DEF make_test_instance, TestManager, InitPlugins
<1> QED
  BY <1>1 DEF IndInv, KnownInv, ManagerInv, LoadInv, ReadyInv, NothingUnasked

(* Any step of the loop: the entry point it takes is new to it.            *)
Takes == stage = "loading" /\ todo # <<>> /\ Passed

LEMMA TakesNew ==
    ASSUME IndInv, Takes
    PROVE  /\ Head(todo) \in EntryPoint /\ Head(todo) \in In(cache)
           /\ todo' \in Seq(EntryPoint) /\ NoDup(todo')
           /\ In(todo') = In(todo) \ {Head(todo)}
           /\ In(todo) \subseteq In(cache)
           /\ Head(todo) \notin resolved /\ ~mgr.test
           /\ UNCHANGED <<cache, installed, mgr, missing>>
<1>1. /\ ~mgr.test /\ todo \in Seq(EntryPoint) /\ NoDup(todo)
      /\ In(todo) \subseteq In(cache)
      /\ resolved = {e \in In(cache) \ In(todo) : ~Skips(e)}
  BY DEF IndInv, ManagerInv, LoadInv, Takes
<1>2. /\ Head(todo) \in EntryPoint /\ Head(todo) \in In(todo)
      /\ Tail(todo) \in Seq(EntryPoint) /\ NoDup(Tail(todo))
      /\ In(Tail(todo)) = In(todo) \ {Head(todo)}
  BY <1>1, Taken DEF Takes
<1> QED
  BY <1>1, <1>2 DEF Takes, Passed, mgrVars

(* The parts a step of the loop does not disturb.                          *)
LEMMA TakesOthers ==
    ASSUME IndInv, Takes, stage' \in {"loading", "raised"},
           resolved' \in {resolved, resolved \cup {Head(todo)}},
           resolved' = resolved \/ ~Skips(Head(todo))
    PROVE  KnownInv' /\ ManagerInv' /\ ReadyInv' /\ NothingUnasked'
<1>1. UNCHANGED <<cache, installed, mgr>> /\ ~mgr.test
  BY TakesNew
<1>2. KnownInv' /\ ManagerInv' /\ ReadyInv'
  BY <1>1 DEF IndInv, KnownInv, ManagerInv, ReadyInv
<1>3. NothingUnasked'
  BY <1>1 DEF IndInv, NothingUnasked, Skips
<1> QED
  BY <1>2, <1>3

LEMMA SkipStep == ASSUME IndInv, LoadSkip PROVE IndInv'
<1>1. Takes /\ UNCHANGED <<stage, extensions, loaded, failed, resolved>>
      /\ Skips(Head(todo))
  BY DEF LoadSkip, Takes
<1>2. stage = "loading" /\ LoadInv
  BY <1>1 DEF Takes, IndInv
<1>3. LoadInv'
  BY <1>1, <1>2, TakesNew DEF LoadInv, Skips
<1> QED
  BY <1>1, <1>2, <1>3, TakesOthers DEF IndInv

(* A step that imports the entry point and leaves it loaded, failed, or    *)
(* turned down.                                                            *)
LEMMA ResolveStep ==
    ASSUME IndInv, Takes, ~Skips(Head(todo)),
           resolved' = resolved \cup {Head(todo)}
    PROVE  /\ resolved' = {e \in In(cache') \ In(todo') : ~Skips(e)'}
           /\ LoadInv /\ stage = "loading"
           /\ Head(todo) \notin In(loaded) \cup failed
<1>1. /\ stage = "loading" /\ LoadInv /\ ~mgr.test
      /\ resolved = {e \in In(cache) \ In(todo) : ~Skips(e)}
      /\ In(loaded) \cup failed \subseteq resolved
  BY TakesNew DEF Takes, IndInv, LoadInv
<1>2. \A e : Skips(e)' <=> Skips(e)
  BY TakesNew DEF Skips
<1> QED
  BY <1>1, <1>2, TakesNew

LEMMA LoadOneStep == ASSUME IndInv, LoadOne PROVE IndInv'
<1>1. /\ Takes /\ ~Skips(Head(todo)) /\ resolved' = resolved \cup {Head(todo)}
      /\ extensions' = Append(extensions, Head(todo))
      /\ loaded' = Append(loaded, Head(todo))
      /\ UNCHANGED <<stage, failed>>
  BY DEF LoadOne, Resolve, Takes
<1>2. LoadInv /\ stage = "loading" /\ Head(todo) \notin In(loaded)
      /\ loaded \in Seq(EntryPoint) /\ NoDup(loaded) /\ extensions = loaded
  BY <1>1, ResolveStep, TakesNew DEF LoadInv
<1>3. /\ loaded' \in Seq(EntryPoint) /\ NoDup(loaded')
      /\ In(loaded') = In(loaded) \cup {Head(todo)}
  BY <1>1, <1>2, TakesNew, Added
<1>4. LoadInv'
  BY <1>1, <1>2, <1>3, ResolveStep, TakesNew DEF LoadInv
<1> QED
  BY <1>1, <1>2, <1>4, TakesOthers DEF IndInv

LEMMA DisabledStep == ASSUME IndInv, LoadDisabled PROVE IndInv'
<1>1. /\ Takes /\ ~Skips(Head(todo)) /\ resolved' = resolved \cup {Head(todo)}
      /\ mgr.cls \in Checked /\ UNCHANGED <<stage, extensions, loaded, failed>>
  BY DEF LoadDisabled, Resolve, Takes
<1>2. LoadInv'
  BY <1>1, ResolveStep, TakesNew DEF LoadInv
<1> QED
  BY <1>1, <1>2, ResolveStep, TakesOthers DEF IndInv

LEMMA FailsStep == ASSUME IndInv, LoadFails PROVE IndInv'
<1>1. /\ Takes /\ ~Skips(Head(todo)) /\ resolved' = resolved \cup {Head(todo)}
      /\ UNCHANGED <<extensions, loaded>>
      /\ \/ /\ mgr.on_failure \in {"log", "callback"}
            /\ failed' = failed \cup {Head(todo)} /\ UNCHANGED stage
         \/ stage' = "raised"
  BY DEF LoadFails, Resolve, Takes
<1>2. LoadInv'
  <2>1. CASE stage' = "raised"
    BY <2>1 DEF LoadInv
  <2>2. CASE /\ mgr.on_failure \in {"log", "callback"}
             /\ failed' = failed \cup {Head(todo)} /\ UNCHANGED stage
    BY <1>1, <2>2, ResolveStep, TakesNew DEF LoadInv
  <2> QED
    BY <1>1, <2>1, <2>2
<1> QED
  BY <1>1, <1>2, ResolveStep, TakesOthers DEF IndInv

LEMMA InterruptedStep == ASSUME IndInv, LoadInterrupted PROVE IndInv'
<1>1. /\ Takes /\ ~Skips(Head(todo)) /\ resolved' = resolved \cup {Head(todo)}
      /\ stage' = "raised"
  BY DEF LoadInterrupted, Resolve, Takes
<1>2. LoadInv'
  BY <1>1 DEF LoadInv
<1> QED
  BY <1>1, <1>2, TakesOthers DEF IndInv

LEMMA FinishStep == ASSUME IndInv, Finish PROVE IndInv'
<1> DEFINE miss == IF mgr.cls \in Named
                   THEN In(mgr.names) \ NamesOf(extensions) ELSE {}
<1>1. /\ stage = "loading" /\ todo = <<>> /\ missing' = miss
      /\ UNCHANGED <<cache, installed, mgr, todo, loaded, failed, resolved>>
      /\ \/ stage' = "raised"
         \/ /\ stage' = "ready" /\ OneDriver(mgr, extensions)
            /\ ~mgr.name_order => extensions' = extensions
  BY DEF Finish, InitPlugins, mgrVars, loadVars
<1>2. KnownInv' /\ ManagerInv' /\ NothingUnasked'
  BY <1>1 DEF IndInv, KnownInv, ManagerInv, NothingUnasked
<1>3. LoadInv'
  BY <1>1 DEF IndInv, LoadInv, ManagerInv, Skips
<1>4. ReadyInv'
  BY <1>1 DEF IndInv, ReadyInv, LoadInv, ManagerInv, OneDriver
<1> QED
  BY <1>2, <1>3, <1>4 DEF IndInv

LEMMA InitInv == Init => IndInv
  BY Nothing DEF Init, IndInv, KnownInv, ManagerInv, LoadInv, ReadyInv,
     NothingUnasked, Named

LEMMA StepInv == IndInv /\ [Next]_vars => IndInv'
<1> SUFFICES ASSUME IndInv, [Next]_vars PROVE IndInv'
  OBVIOUS
<1>1. CASE \E ep \in EntryPoint : Activate(ep)
  BY <1>1, ActivateStep
<1>2. CASE \E c \in Class, ns \in NameLists \cup {<<>>}, o, p \in BOOLEAN,
              f \in {"log", "callback", "raise"}, m \in {"log", "raise"} :
             Construct([cls |-> c, names |-> ns, name_order |-> o,
                        on_failure |-> f, on_missing |-> m, propagate |-> p,
                        test |-> FALSE])
  BY <1>2, ConstructStep, ZenonT(60)
<1>3. CASE \E c \in Class, l \in TestLists, p \in BOOLEAN :
             make_test_instance(c, l, p)
  BY <1>3, TestStep
<1>4. CASE BuildIndex
  BY <1>4, Undisturbed DEF BuildIndex, mgrVars, loadVars
<1>5. CASE \E ns \in NameLists \cup {<<>>} : map(ns)
  BY <1>5, Undisturbed DEF map, mgrVars, loadVars, listVars
<1>6. CASE Load
  BY <1>6, SkipStep, LoadOneStep, DisabledStep, FailsStep, InterruptedStep,
     FinishStep DEF Load
<1>7. CASE Map
  BY <1>7, Undisturbed DEF Map, FilterOut, Returns, Raises, Interrupted,
     MapReturns, OnNext, InMap, mgrVars, loadVars, listVars
<1>8. CASE UNCHANGED vars
  BY <1>8, Undisturbed DEF vars, mgrVars, loadVars, listVars
<1> QED
  BY <1>1, <1>2, <1>3, <1>4, <1>5, <1>6, <1>7, <1>8 DEF Next

LEMMA Invariance == Spec => []IndInv
  BY InitInv, StepInv, PTL DEF Spec

(* NamesHonoured: whatever fails, no code of an entry point is imported    *)
(* that was not named, missing names are those nobody was loaded for, and  *)
(* a driver manager has the one driver it was asked for.                   *)
THEOREM NamesAreHonoured == Spec => []NamesHonoured
<1>1. IndInv => NamesHonoured
  <2> SUFFICES ASSUME IndInv PROVE NamesHonoured
    OBVIOUS
  <2>1. MissingExact
    <3> SUFFICES ASSUME stage = "ready", mgr.cls \in Named, ~mgr.test,
                        NEW n \in In(mgr.names)
                 PROVE  n \in missing
                          <=> {e \in In(cache) : NameOf[e] = n} \subseteq failed
      BY DEF MissingExact
    <3>1. /\ missing = In(mgr.names) \ NamesOf(loaded)
          /\ In(loaded) \cup failed = {e \in In(cache) : ~Skips(e)}
          /\ In(loaded) \cap failed = {}
      BY Nothing DEF IndInv, ReadyInv, LoadInv, Named, Checked
    <3>2. \A e \in In(cache) : NameOf[e] = n => e \in In(loaded) \cup failed
      BY <3>1 DEF Skips
    <3>3. n \in NamesOf(loaded)
            <=> \E e \in In(cache) : NameOf[e] = n /\ e \in In(loaded)
      BY <3>1 DEF NamesOf
    <3> QED
      BY <3>1, <3>2, <3>3
  <2>2. DriverUnique
    <3> SUFFICES ASSUME stage = "ready", mgr.cls = "driver", ~mgr.test
                 PROVE  /\ Len(extensions) = 1
                        /\ NameOf[extensions[1]] = mgr.names[1]
                        /\ mgr.on_failure = "raise" =>
                             {e \in In(cache) : NameOf[e] = mgr.names[1]}
                               = In(extensions)
      BY DEF DriverUnique
    <3>1. /\ Len(extensions) = 1 /\ extensions = loaded /\ Len(mgr.names) = 1
          /\ In(loaded) \cup failed = {e \in In(cache) : ~Skips(e)}
          /\ mgr.on_failure = "raise" => failed = {}
      BY Nothing DEF IndInv, ReadyInv, LoadInv, ManagerInv, Checked
    <3>2. In(mgr.names) = {mgr.names[1]} /\ In(extensions) = {extensions[1]}
      BY <3>1 DEF In
    <3>3. \A e : ~Skips(e) <=> NameOf[e] = mgr.names[1]
      BY <3>2 DEF Skips, Named
    <3> QED
      BY <3>1, <3>2, <3>3
  <2> QED
    BY <2>1, <2>2 DEF NamesHonoured, IndInv
<1> QED
  BY <1>1, Invariance, PTL

----------------------------------------------------------------------------
(* Types                                                                   *)

(* The index by name has, for each name, the last extension of that name.  *)
LEMMA LastOfName ==
    ASSUME NEW exts \in Seq(EntryPoint), NEW n \in NamesOf(exts)
    PROVE  \E i \in 1..Len(exts) :
             /\ Last(exts, n) = exts[i] /\ NameOf[exts[i]] = n
             /\ \A j \in 1..Len(exts) : NameOf[exts[j]] = n => j <= i
<1> DEFINE Is == {i \in 1..Len(exts) : NameOf[exts[i]] = n}
           i == CHOOSE k \in Is : \A j \in Is : j <= k
<1>1. Is # {}
  BY DEF NamesOf, In
<1>2. Len(exts) \in Nat /\ Is \subseteq 0..Len(exts)
  OBVIOUS
<1>3. \E k \in Is : \A j \in Is : j <= k
  <2> HIDE DEF Is
  <2> QED
    BY <1>1, <1>2, GreatestElement
<1>4. i \in Is /\ \A j \in Is : j <= i
  <2> HIDE DEF Is
  <2> QED
    BY <1>3
<1>5. Last(exts, n) = exts[i]
  BY DEF Last
<1> HIDE DEF i
<1> QED
  BY <1>4, <1>5

LEMMA NameIndex ==
    ASSUME NEW exts \in Seq(EntryPoint)
    PROVE  /\ NamesOf(exts) \subseteq Name /\ DOMAIN ByName(exts) = NamesOf(exts)
           /\ \A n \in NamesOf(exts) :
                /\ ByName(exts)[n] = Last(exts, n)
                /\ Last(exts, n) \in In(exts) /\ Last(exts, n) \in EntryPoint
                /\ NameOf[Last(exts, n)] = n
<1>1. \A i \in 1..Len(exts) : exts[i] \in EntryPoint /\ exts[i] \in In(exts)
  BY DEF In
<1>2. NamesOf(exts) \subseteq Name
  BY <1>1, NameAssumption DEF NamesOf, In
<1>3. \A n \in NamesOf(exts) :
        \E i \in 1..Len(exts) : Last(exts, n) = exts[i] /\ NameOf[exts[i]] = n
  BY LastOfName
<1> QED
  BY <1>1, <1>2, <1>3 DEF ByName

(* The list in the order of the names.                                     *)
LEMMA NameOrder ==
    ASSUME NEW exts \in Seq(EntryPoint), NEW names \in Seq(Name), NEW D,
           In(names) \cap D \subseteq NamesOf(exts)
    PROVE  LET found == Keep(names, D)
               list == [i \in 1..Len(found) |-> ByName(exts)[found[i]]]
           IN  /\ list \in Seq(EntryPoint)
               /\ In(list) = {Last(exts, n) : n \in In(names) \cap D}
<1> DEFINE found == Keep(names, D)
           list == [i \in 1..Len(found) |-> ByName(exts)[found[i]]]
<1>1. found \in Seq(Name) /\ In(found) = In(names) \cap D
  BY KeepSelects, KeepMembers
<1> HIDE DEF found
<1>2. \A i \in 1..Len(found) : found[i] \in In(found)
  BY DEF In
<1>3. \A i \in 1..Len(found) :
        list[i] = Last(exts, found[i]) /\ list[i] \in EntryPoint
  BY <1>1, <1>2, NameIndex
<1>4. Len(found) \in Nat
  BY <1>1
<1>5. list \in Seq(EntryPoint) /\ Len(list) = Len(found)
  BY <1>3, <1>4
<1> HIDE DEF list
<1>6. In(list) = {Last(exts, n) : n \in In(found)}
  BY <1>3, <1>5 DEF In
<1> QED
  BY <1>1, <1>5, <1>6 DEF found, list

CallRecord ==
    [status : {"none", "running", "returned", "raised", "interrupted", "NoMatches"},
     queue : Seq(EntryPoint), next : Nat, response : Seq(Nat),
     bad : SUBSET Nat, out : SUBSET Nat]

IndexType(d) ==
    d = None \/ (DOMAIN d \subseteq Name /\ \A n \in DOMAIN d : d[n] \in EntryPoint)

(* The variables of the process and of the loop, and those of a manager    *)
(* that is up.                                                             *)
LoadType ==
    /\ installed \in Seq(EntryPoint)
    /\ cache \in Seq(EntryPoint) \cup {None}
    /\ mgr \in Manager /\ made \in 0..MaxManagers
    /\ stage \in {"none", "loading", "ready", "raised"}
    /\ todo \in Seq(EntryPoint) /\ loaded \in Seq(EntryPoint)
    /\ failed \in SUBSET EntryPoint /\ resolved \in SUBSET EntryPoint

ListType ==
    /\ extensions \in Seq(EntryPoint)
    /\ missing \in SUBSET Name
    /\ IndexType(index) /\ IndexType(by_name)
    /\ (stage = "ready" /\ mgr.cls = "namedispatch") => by_name = ByName(extensions)

TypeInv == LoadType /\ ListType /\ call \in CallRecord

LEMMA TypeInvOK == TypeInv => TypeOK
  BY DEF TypeInv, LoadType, ListType, IndexType, CallRecord, TypeOK

LEMMA InitType == Init => TypeInv
<1> SUFFICES ASSUME Init PROVE TypeInv
  OBVIOUS
<1>1. LoadType /\ ListType
  BY BoundAssumption DEF Init, LoadType, ListType, IndexType, Manager, Class,
     Named, Checked
<1>2. call \in CallRecord
  BY DEF Init, NoCall, CallRecord
<1> QED
  BY <1>1, <1>2 DEF TypeInv

LEMMA NoCallType == NoCall \in CallRecord
  BY DEF NoCall, CallRecord

LEMMA HeadTailType ==
    ASSUME NEW s \in Seq(EntryPoint), s # <<>>
    PROVE  Head(s) \in EntryPoint /\ Tail(s) \in Seq(EntryPoint)
           /\ \A t \in Seq(EntryPoint) : Append(t, Head(s)) \in Seq(EntryPoint)
  OBVIOUS

(* The end of a constructor: the list of extensions is arranged.           *)
LEMMA ArrangeType ==
    ASSUME NEW m \in Manager, NEW exts \in Seq(EntryPoint),
           NEW miss \in SUBSET Name,
           InitPlugins(m, exts, miss), mgr' = m,
           m.name_order => m.cls = "named"
                           /\ In(m.names) \ miss \subseteq NamesOf(exts)
    PROVE  ListType'
<1>1. missing' \in SUBSET Name /\ m.names \in Seq(Name)
      /\ m.name_order \in BOOLEAN
  BY DEF InitPlugins, Manager
<1>2. IndexType(ByName(exts))
  BY NameIndex DEF IndexType
<1>3. by_name' = (IF m.cls = "namedispatch" THEN ByName(exts) ELSE None)
  BY DEF InitPlugins
<1>4. IndexType(by_name)'
  BY <1>2, <1>3 DEF IndexType
<1>5. CASE m.name_order
  <2> DEFINE found == Keep(m.names, In(m.names) \ miss)
  <2>1. /\ index' = ByName(exts)
        /\ extensions' = [i \in 1..Len(found) |-> ByName(exts)[found[i]]]
    BY <1>5 DEF InitPlugins
  <2>2. In(m.names) \cap (In(m.names) \ miss) \subseteq NamesOf(exts)
    BY <1>5
  <2>3. extensions' \in Seq(EntryPoint)
    BY <1>1, <2>1, <2>2, NameOrder
  <2>4. IndexType(index)'
    BY <1>2, <2>1 DEF IndexType
  <2>5. m.cls # "namedispatch"
    BY <1>5
  <2> QED
    BY <1>1, <1>4, <2>3, <2>4, <2>5 DEF ListType
<1>6. CASE ~m.name_order
  <2>1. index' = None /\ extensions' = exts
    BY <1>6 DEF InitPlugins
  <2>2. IndexType(index)'
    BY <2>1 DEF IndexType
  <2> QED
    BY <1>1, <1>3, <1>4, <2>1, <2>2 DEF ListType
<1> QED
  BY <1>5, <1>6

(* A step of the loop, whatever becomes of the entry point.                *)
LEMMA PassedType ==
    ASSUME TypeInv, Passed, stage = "loading", todo # <<>>,
           stage' \in {"loading", "raised"},
           extensions' \in {extensions, Append(extensions, Head(todo))},
           loaded' \in {loaded, Append(loaded, Head(todo))},
           failed' \in {failed, failed \cup {Head(todo)}},
           resolved' \in {resolved, resolved \cup {Head(todo)}}
    PROVE  TypeInv'
<1>1. todo \in Seq(EntryPoint) /\ loaded \in Seq(EntryPoint)
      /\ extensions \in Seq(EntryPoint)
      /\ failed \in SUBSET EntryPoint /\ resolved \in SUBSET EntryPoint
  BY DEF TypeInv, LoadType, ListType
<1>2. /\ Head(todo) \in EntryPoint /\ todo' \in Seq(EntryPoint)
      /\ loaded' \in Seq(EntryPoint) /\ extensions' \in Seq(EntryPoint)
  BY <1>1, HeadTailType DEF Passed
<1>3. UNCHANGED <<installed, cache, mgr, made, missing, index, by_name, call>>
  BY DEF Passed, mgrVars
<1>4. LoadType'
  BY <1>1, <1>2, <1>3 DEF TypeInv, LoadType
<1>5. ListType'
  BY <1>2, <1>3 DEF TypeInv, ListType, IndexType
<1> QED
  BY <1>3, <1>4, <1>5 DEF TypeInv

LEMMA LoadingType ==
    ASSUME TypeInv,
           LoadSkip \/ LoadOne \/ LoadDisabled \/ LoadFails \/ LoadInterrupted
    PROVE  TypeInv'
  BY PassedType DEF LoadSkip, LoadOne, LoadDisabled, LoadFails, LoadInterrupted,
     Resolve

LEMMA FinishType == ASSUME TypeInv, IndInv, Finish PROVE TypeInv'
<1> DEFINE miss == IF mgr.cls \in Named
                   THEN In(mgr.names) \ NamesOf(extensions) ELSE {}
<1>1. UNCHANGED <<installed, cache, mgr, made, todo, loaded, failed, resolved, call>>
  BY DEF Finish, mgrVars, loadVars
<1>2. /\ mgr \in Manager /\ extensions \in Seq(EntryPoint)
      /\ IndexType(index) /\ IndexType(by_name)
  BY DEF TypeInv, LoadType, ListType
<1>3. miss \in SUBSET Name
  <2>1. mgr.names \in Seq(Name)
    BY <1>2 DEF Manager
  <2>2. In(mgr.names) \subseteq Name
    BY <2>1 DEF In
  <2> QED
    BY <2>2
<1>4. stage' \in {"ready", "raised"}
  BY DEF Finish, InitPlugins
<1>5. LoadType'
  BY <1>1, <1>4 DEF TypeInv, LoadType
<1>6. ListType'
  <2>1. CASE missing' = miss /\ stage' = "raised" /\ UNCHANGED <<extensions, index, by_name>>
    BY <1>2, <1>3, <2>1 DEF ListType, IndexType
  <2>2. CASE InitPlugins(mgr, extensions, miss)
    <3>1. mgr.name_order => mgr.cls = "named"
      BY DEF IndInv, ManagerInv, Finish
    <3>2. mgr.cls = "named" => In(mgr.names) \ miss \subseteq NamesOf(extensions)
      BY DEF Named
    <3> HIDE DEF miss
    <3> QED
      BY <1>1, <1>2, <1>3, <2>2, <3>1, <3>2, ArrangeType
  <2> QED
    BY <2>1, <2>2 DEF Finish
<1> QED
  BY <1>1, <1>5, <1>6 DEF TypeInv

LEMMA NamesGiven ==
    ASSUME NEW ns \in NameLists \cup {<<>>} PROVE ns \in Seq(Name)
<1>1. <<>> \in Seq(Name)
  OBVIOUS
<1>2. CASE ns \in NameLists
  BY <1>2, ListAssumption
<1> QED
  BY <1>1, <1>2

LEMMA ConstructType ==
    ASSUME TypeInv, NEW c \in Class, NEW ns \in NameLists \cup {<<>>},
           NEW o \in BOOLEAN, NEW p \in BOOLEAN,
           NEW f \in {"log", "callback", "raise"}, NEW m \in {"log", "raise"},
           Construct([cls |-> c, names |-> ns, name_order |-> o,
                      on_failure |-> f, on_missing |-> m, propagate |-> p,
                      test |-> FALSE])
    PROVE  TypeInv'
<1>1. ns \in Seq(Name)
  BY NamesGiven
<1>2. mgr' \in Manager
  BY <1>1 DEF Construct, Manager
<1>3. /\ made' \in 0..MaxManagers
  BY BoundAssumption DEF TypeInv, LoadType, Construct, Blank
<1>4. cache' \in Seq(EntryPoint) /\ todo' \in Seq(EntryPoint)
  BY DEF TypeInv, LoadType, Construct, list_entry_points
<1>5. /\ stage' = "loading" /\ resolved' = {} /\ failed' = {}
      /\ loaded' = <<>> /\ extensions' = <<>> /\ UNCHANGED installed
      /\ missing' = {} /\ index' = None /\ by_name' = None /\ call' = NoCall
  BY DEF Construct, Blank
<1>6. LoadType'
  BY <1>2, <1>3, <1>4, <1>5, Nothing DEF TypeInv, LoadType
<1>7. ListType'
  BY <1>5, Nothing DEF ListType, IndexType
<1> QED
  BY <1>5, <1>6, <1>7, NoCallType DEF TypeInv

LEMMA TestType ==
    ASSUME TypeInv, NEW c \in Class, NEW l \in TestLists, NEW p \in BOOLEAN,
           make_test_instance(c, l, p)
    PROVE  TypeInv'
<1> DEFINE m == TestManager(c, l, p)
           names == IF c \in Named THEN [i \in 1..Len(l) |-> NameOf[l[i]]] ELSE <<>>
<1>1. l \in Seq(EntryPoint)
  BY ListAssumption
<1>2. names \in Seq(Name)
  BY <1>1, NameAssumption
<1>3. m \in Manager /\ ~m.name_order
  <2> HIDE DEF names
  <2>1. m = [cls |-> c, name_order |-> FALSE, on_failure |-> "log",
             on_missing |-> "log", propagate |-> p, test |-> TRUE, names |-> names]
    BY DEF TestManager, names
  <2> QED
    BY <1>2, <2>1 DEF Manager
<1>4. made' \in 0..MaxManagers
  BY BoundAssumption DEF TypeInv, LoadType, make_test_instance
<1>5. /\ mgr' = m /\ InitPlugins(m, l, {}) /\ call' = NoCall
      /\ todo' = <<>> /\ loaded' = l /\ failed' = {} /\ resolved' = {}
      /\ UNCHANGED <<cache, installed>> /\ stage' \in {"ready", "raised"}
  BY DEF make_test_instance, InitPlugins
<1> HIDE DEF m
<1>6. LoadType'
  BY <1>1, <1>3, <1>4, <1>5, Nothing DEF TypeInv, LoadType
<1>7. ListType'
  BY <1>1, <1>3, <1>5, ArrangeType
<1> QED
  BY <1>5, <1>6, <1>7, NoCallType DEF TypeInv

LEMMA QueueType ==
    ASSUME TypeInv, stage = "ready", NEW ns \in NameLists \cup {<<>>}
    PROVE  Queue(ns) \in Seq(EntryPoint)
<1>1. ns \in Seq(Name) /\ extensions \in Seq(EntryPoint)
  BY NamesGiven DEF TypeInv, ListType
<1>2. CASE mgr.cls = "namedispatch"
  <2>1. by_name = ByName(extensions)
    BY <1>2 DEF TypeInv, ListType
  <2>2. In(ns) \cap DOMAIN by_name \subseteq NamesOf(extensions)
    BY <1>1, <2>1, NameIndex
  <2>3. Queue(ns) = LET found == Keep(ns, DOMAIN by_name)
                    IN  [i \in 1..Len(found) |-> ByName(extensions)[found[i]]]
    BY <1>2, <2>1 DEF Queue
  <2> QED
    BY <1>1, <2>2, <2>3, NameOrder
<1>3. CASE mgr.cls # "namedispatch"
  BY <1>1, <1>3 DEF Queue
<1> QED
  BY <1>2, <1>3

(* map and the steps of a call.                                            *)
LEMMA CallSteps ==
    ASSUME TypeInv, NEW c, c = call, OnNext
    PROVE  /\ c \in CallRecord /\ c.next \in Nat /\ c.status = "running"
           /\ c.next <= Len(c.queue) /\ UNCHANGED mgr
  BY DEF TypeInv, CallRecord, OnNext, InMap, mgrVars

LEMMA MapType == ASSUME TypeInv, Map PROVE call' \in CallRecord
<1> PICK c \in CallRecord : c = call
  BY DEF TypeInv
<1>1. /\ c.next \in Nat /\ c.response \in Seq(Nat)
      /\ c.bad \in SUBSET Nat /\ c.out \in SUBSET Nat
  BY DEF CallRecord
<1>2. /\ Append(c.response, c.next) \in Seq(Nat)
      /\ c.bad \cup {c.next} \in SUBSET Nat /\ c.out \cup {c.next} \in SUBSET Nat
      /\ c.next + 1 \in Nat
  BY <1>1
<1>3. CASE FilterOut
  <2>1. \/ call' = [c EXCEPT !.next = @ + 1, !.out = @ \cup {c.next}]
        \/ call' = [c EXCEPT !.status = "interrupted"]
    BY <1>3 DEF FilterOut
  <2> QED
    BY <1>2, <2>1 DEF CallRecord
<1>4. CASE Returns
  <2>1. call' = [c EXCEPT !.response = Append(@, c.next), !.next = @ + 1]
    BY <1>4 DEF Returns
  <2> QED
    BY <1>2, <2>1 DEF CallRecord
<1>5. CASE Raises
  <2>1. call' = [c EXCEPT !.bad = @ \cup {c.next}, !.next = @ + 1,
                          !.status = IF mgr.propagate THEN "raised" ELSE @]
    BY <1>5 DEF Raises
  <2> DEFINE st == IF mgr.propagate THEN "raised" ELSE c.status
  <2>2. st \in {"none", "running", "returned", "raised", "interrupted", "NoMatches"}
    BY DEF CallRecord
  <2>3. call' = [c EXCEPT !.bad = c.bad \cup {c.next}, !.next = c.next + 1,
                          !.status = st]
    BY <2>1 DEF CallRecord
  <2> HIDE DEF st
  <2> QED
    BY <1>2, <2>2, <2>3 DEF CallRecord
<1>6. CASE Interrupted \/ MapReturns
  <2>1. \/ call' = [c EXCEPT !.status = "interrupted"]
        \/ call' = [c EXCEPT !.status = "returned"]
    BY <1>6 DEF Interrupted, MapReturns
  <2> QED
    BY <2>1 DEF CallRecord
<1> QED
  BY <1>3, <1>4, <1>5, <1>6 DEF Map

LEMMA OtherType ==
    ASSUME TypeInv, call' \in CallRecord, installed' \in Seq(EntryPoint),
           UNCHANGED <<cache, mgr, made, stage, todo, loaded, failed, resolved,
                       extensions, missing, by_name>>,
           index' = index \/ index' = ByName(extensions)
    PROVE  TypeInv'
<1>1. LoadType'
  BY DEF TypeInv, LoadType
<1>2. extensions \in Seq(EntryPoint) /\ IndexType(index)
  BY DEF TypeInv, ListType
<1>3. IndexType(ByName(extensions))
  BY <1>2, NameIndex DEF IndexType
<1>4. IndexType(index)'
  BY <1>2, <1>3 DEF IndexType
<1>5. ListType'
  BY <1>4 DEF TypeInv, ListType, IndexType
<1> QED
  BY <1>1, <1>5 DEF TypeInv

LEMMA TypeStep == ASSUME TypeInv, IndInv, [Next]_vars PROVE TypeInv'
<1>0. installed \in Seq(EntryPoint) /\ call \in CallRecord
  BY DEF TypeInv, LoadType
<1>1. CASE \E ep \in EntryPoint : Activate(ep)
  <2>1. PICK ep \in EntryPoint : Activate(ep)
    BY <1>1
  <2>2. installed' \in Seq(EntryPoint)
    BY <1>0, <2>1 DEF Activate
  <2> QED
    BY <1>0, <2>1, <2>2, OtherType DEF Activate, mgrVars, loadVars, listVars
<1>2. CASE \E c \in Class, ns \in NameLists \cup {<<>>}, o, p \in BOOLEAN,
              f \in {"log", "callback", "raise"}, m \in {"log", "raise"} :
             Construct([cls |-> c, names |-> ns, name_order |-> o,
                        on_failure |-> f, on_missing |-> m, propagate |-> p,
                        test |-> FALSE])
  BY <1>2, ConstructType, ZenonT(60)
<1>3. CASE \E c \in Class, l \in TestLists, p \in BOOLEAN :
             make_test_instance(c, l, p)
  BY <1>3, TestType
<1>4. CASE BuildIndex
  BY <1>0, <1>4, OtherType DEF BuildIndex, mgrVars, loadVars
<1>5. CASE \E ns \in NameLists \cup {<<>>} : map(ns)
  <2>1. PICK ns \in NameLists \cup {<<>>} : map(ns)
    BY <1>5
  <2>2. Queue(ns) \in Seq(EntryPoint)
    BY <2>1, QueueType DEF map, Idle
  <2>3. \/ call' = [NoCall EXCEPT !.status = "NoMatches"]
        \/ call' = [NoCall EXCEPT !.status = "running", !.queue = Queue(ns)]
    BY <2>1 DEF map
  <2> PICK c \in CallRecord : c = NoCall
    BY NoCallType
  <2>4. call' \in CallRecord
    BY <2>2, <2>3 DEF CallRecord
  <2> QED
    BY <1>0, <2>1, <2>4, OtherType DEF map, mgrVars, loadVars, listVars
<1>6. CASE Load
  BY <1>6, LoadingType, FinishType DEF Load
<1>7. CASE Map
  <2>1. UNCHANGED <<installed, cache, stage, mgrVars, loadVars, listVars>>
    BY <1>7 DEF Map, FilterOut, Returns, Raises, Interrupted, MapReturns,
       OnNext, InMap
  <2> QED
    BY <1>0, <1>7, <2>1, MapType, OtherType DEF mgrVars, loadVars, listVars
<1>8. CASE UNCHANGED vars
  BY <1>0, <1>8, OtherType DEF vars, mgrVars, loadVars, listVars
<1> QED
  BY <1>1, <1>2, <1>3, <1>4, <1>5, <1>6, <1>7, <1>8 DEF Next

(* TypeOK: lists and indexes hold entry points, whichever manager comes    *)
(* after which, and a call has a well-formed record of what happened.      *)
THEOREM TypeCorrect == Spec => []TypeOK
<1>1. IndInv /\ TypeInv /\ [Next]_vars => (IndInv /\ TypeInv)'
  BY TypeStep, StepInv
<1> QED
  BY <1>1, InitType, InitInv, TypeInvOK, PTL DEF Spec

----------------------------------------------------------------------------
(* The list and the index                                                  *)

(* A manager that is up keeps what it has loaded, or, in the order of the  *)
(* names, the last extension of each name.                                 *)
ListInv ==
    stage = "ready" =>
      /\ ~mgr.name_order => extensions = loaded
      /\ mgr.name_order =>
           In(extensions) = {Last(loaded, n) : n \in NamesOf(loaded)}
      /\ IndexCurrent

(* The extensions of a name-ordered manager index as the loaded ones do.   *)
LEMMA SameIndex ==
    ASSUME NEW exts \in Seq(EntryPoint), NEW list \in Seq(EntryPoint),
           In(list) = {Last(exts, n) : n \in NamesOf(exts)}
    PROVE  ByName(list) = ByName(exts)
<1>1. \A n \in NamesOf(exts) : NameOf[Last(exts, n)] = n
  BY NameIndex
<1>2. NamesOf(list) = NamesOf(exts)
  <2>1. NamesOf(list) = {NameOf[Last(exts, n)] : n \in NamesOf(exts)}
    BY DEF NamesOf
  <2> QED
    BY <1>1, <2>1
<1>3. \A n \in NamesOf(list) : Last(list, n) = Last(exts, n)
  <2> TAKE n \in NamesOf(list)
  <2>1. Last(list, n) \in In(list) /\ NameOf[Last(list, n)] = n
    BY NameIndex
  <2> QED
    BY <1>1, <2>1
<1> QED
  BY <1>2, <1>3 DEF ByName

LEMMA FinishList == ASSUME IndInv, TypeInv, Finish PROVE ListInv'
<1> SUFFICES ASSUME stage' = "ready" PROVE ListInv'
  BY DEF ListInv
<1> DEFINE miss == IF mgr.cls \in Named
                   THEN In(mgr.names) \ NamesOf(extensions) ELSE {}
<1>1. /\ stage = "loading" /\ UNCHANGED <<mgr, loaded>>
      /\ InitPlugins(mgr, extensions, miss)
  BY DEF Finish, mgrVars, loadVars
<1>2. /\ extensions = loaded /\ loaded \in Seq(EntryPoint)
      /\ In(loaded) \subseteq resolved /\ NothingUnasked /\ ~mgr.test
  BY <1>1 DEF IndInv, LoadInv, ManagerInv
<1>3. CASE mgr.name_order
  <2> DEFINE found == Keep(mgr.names, In(mgr.names) \ miss)
  <2>1. /\ index' = ByName(loaded)
        /\ extensions' = [i \in 1..Len(found) |-> ByName(loaded)[found[i]]]
    BY <1>1, <1>2, <1>3 DEF InitPlugins
  <2>2. mgr.cls = "named" /\ mgr.names \in Seq(Name)
    BY <1>2, <1>3 DEF IndInv, ManagerInv, TypeInv, LoadType, Manager
  <2>3. NamesOf(loaded) \subseteq In(mgr.names)
    BY <1>2, <2>2 DEF NothingUnasked, Named, NamesOf
  <2>4. In(mgr.names) \cap (In(mgr.names) \ miss) = NamesOf(loaded)
    BY <1>2, <2>2, <2>3 DEF Named
  <2> DEFINE D == In(mgr.names) \ miss
  <2> HIDE DEF miss
  <2>5. /\ extensions' \in Seq(EntryPoint)
        /\ In(extensions') = {Last(loaded, n) : n \in NamesOf(loaded)}
    <3>1. In(mgr.names) \cap D \subseteq NamesOf(loaded)
      BY <2>4
    <3> HIDE DEF D
    <3>2. /\ [i \in 1..Len(Keep(mgr.names, D)) |->
                ByName(loaded)[Keep(mgr.names, D)[i]]] \in Seq(EntryPoint)
          /\ In([i \in 1..Len(Keep(mgr.names, D)) |->
                   ByName(loaded)[Keep(mgr.names, D)[i]]])
               = {Last(loaded, n) : n \in In(mgr.names) \cap D}
      BY <1>2, <2>2, <3>1, NameOrder
    <3> QED
      BY <2>1, <2>4, <3>2 DEF D
  <2>6. ByName(extensions') = ByName(loaded)
    BY <1>2, <2>5, SameIndex
  <2>7. IndexCurrent'
    BY <2>1, <2>6 DEF IndexCurrent
  <2>8. In(extensions)' = In(extensions') /\ NamesOf(loaded)' = NamesOf(loaded)
        /\ \A n : Last(loaded, n)' = Last(loaded, n)
    BY <1>1 DEF In, NamesOf, Last
  <2> QED
    BY <1>1, <1>3, <2>5, <2>7, <2>8 DEF ListInv
<1>4. CASE ~mgr.name_order
  BY <1>1, <1>2, <1>4 DEF InitPlugins, ListInv, IndexCurrent
<1> QED
  BY <1>3, <1>4

LEMMA ListUnchanged ==
    ASSUME ListInv, UNCHANGED <<mgr, loaded, extensions, stage>>,
           index' = index \/ index' = ByName(extensions)
    PROVE  ListInv'
<1>1. In(extensions)' = In(extensions) /\ NamesOf(loaded)' = NamesOf(loaded)
      /\ \A n : Last(loaded, n)' = Last(loaded, n)
      /\ ByName(extensions)' = ByName(extensions)
  BY DEF In, NamesOf, Last, ByName
<1> QED
  BY <1>1 DEF ListInv, IndexCurrent

LEMMA ListStep == ASSUME IndInv, TypeInv, ListInv, [Next]_vars PROVE ListInv'
<1>0. CASE stage' # "ready"
  BY <1>0 DEF ListInv
<1>1. CASE \E ep \in EntryPoint : Activate(ep)
  BY <1>1, ListUnchanged DEF Activate, mgrVars, loadVars, listVars
<1>2. CASE \E c \in Class, ns \in NameLists \cup {<<>>}, o, p \in BOOLEAN,
              f \in {"log", "callback", "raise"}, m \in {"log", "raise"} :
             Construct([cls |-> c, names |-> ns, name_order |-> o,
                        on_failure |-> f, on_missing |-> m, propagate |-> p,
                        test |-> FALSE])
  BY <1>0, <1>2 DEF Construct
<1>3. CASE \E c \in Class, l \in TestLists, p \in BOOLEAN :
             make_test_instance(c, l, p)
  <2> PICK c \in Class, l \in TestLists, p \in BOOLEAN :
             make_test_instance(c, l, p)
    BY <1>3
  <2>1. ~TestManager(c, l, p).name_order
    BY DEF TestManager
  <2>2. ~mgr'.name_order /\ extensions' = l /\ loaded' = l /\ index' = None
    BY <2>1 DEF make_test_instance, InitPlugins
  <2> QED
    BY <2>2 DEF ListInv, IndexCurrent
<1>4. CASE BuildIndex
  BY <1>4, ListUnchanged DEF BuildIndex, mgrVars, loadVars
<1>5. CASE \E ns \in NameLists \cup {<<>>} : map(ns)
  BY <1>5, ListUnchanged DEF map, mgrVars, loadVars, listVars
<1>6. CASE Load
  <2>1. CASE Finish
    BY <2>1, FinishList
  <2>2. CASE LoadSkip \/ LoadOne \/ LoadDisabled \/ LoadFails \/ LoadInterrupted
    BY <1>0, <2>2 DEF LoadSkip, LoadOne, LoadDisabled, LoadFails,
       LoadInterrupted, Resolve
  <2> QED
    BY <1>6, <2>1, <2>2 DEF Load
<1>7. CASE Map
  BY <1>7, ListUnchanged DEF Map, FilterOut, Returns, Raises, Interrupted,
     MapReturns, OnNext, InMap, mgrVars, loadVars, listVars
<1>8. CASE UNCHANGED vars
  BY <1>8, ListUnchanged DEF vars, mgrVars, loadVars, listVars
<1> QED
  BY <1>1, <1>2, <1>3, <1>4, <1>5, <1>6, <1>7, <1>8 DEF Next

LEMMA NotLost == IndInv => NothingLost
<1> SUFFICES ASSUME IndInv, stage = "ready", ~mgr.test
             PROVE  /\ resolved = {e \in In(cache) : ~Skips(e)}
                    /\ In(loaded) \cup failed \subseteq resolved
                    /\ mgr.cls \notin Checked => In(loaded) \cup failed = resolved
                    /\ In(loaded) \cap failed = {}
                    /\ NoDup(loaded)
  BY DEF NothingLost, NoDup
<1> QED
  BY Nothing DEF IndInv, LoadInv, ReadyInv

(* ListAccounted: each entry point is loaded, failed or turned down,       *)
(* exactly once; only namesakes loaded later replace an extension in the   *)
(* list (DropsDuplicates); and the index built before the list was put in  *)
(* order is still the index of the list (IndexCurrent).                    *)
THEOREM ListIsAccounted == Spec => []ListAccounted
<1>1. IndInv /\ TypeInv /\ ListInv => ListAccounted
  <2> SUFFICES ASSUME IndInv, TypeInv, ListInv PROVE ListAccounted
    OBVIOUS
  <2>1. DropsDuplicates
    <3> SUFFICES ASSUME stage = "ready", NEW i \in 1..Len(loaded),
                        loaded[i] \notin In(extensions)
                 PROVE  /\ mgr.name_order
                        /\ \E j \in i + 1..Len(loaded) :
                             NameOf[loaded[j]] = NameOf[loaded[i]]
      BY DEF DropsDuplicates
    <3> DEFINE n == NameOf[loaded[i]]
    <3>1. loaded \in Seq(EntryPoint) /\ Len(loaded) \in Nat
      BY DEF TypeInv, LoadType
    <3>2. loaded[i] \in In(loaded) /\ n \in NamesOf(loaded)
      BY DEF In, NamesOf
    <3>3. mgr.name_order
      BY <3>2 DEF ListInv
    <3>4. Last(loaded, n) \in In(extensions)
      BY <3>2, <3>3 DEF ListInv
    <3>5. PICK j \in 1..Len(loaded) :
             /\ Last(loaded, n) = loaded[j] /\ NameOf[loaded[j]] = n
             /\ \A k \in 1..Len(loaded) : NameOf[loaded[k]] = n => k <= j
      BY <3>1, <3>2, LastOfName
    <3>6. i <= j /\ i # j
      BY <3>4, <3>5
    <3>7. j \in i + 1..Len(loaded)
      BY <3>1, <3>6
    <3> QED
      BY <3>3, <3>5, <3>7
  <2>2. IndexCurrent
    BY DEF ListInv, IndexCurrent
  <2> QED
    BY <2>1, <2>2, NotLost DEF ListAccounted
<1>2. Init => ListInv
  BY DEF Init, ListInv
<1>3. IndInv /\ TypeInv /\ ListInv /\ [Next]_vars => (IndInv /\ TypeInv /\ ListInv)'
  BY TypeStep, StepInv, ListStep
<1> QED
  BY <1>1, <1>2, <1>3, InitType, InitInv, PTL DEF Spec

----------------------------------------------------------------------------
(* Calls                                                                   *)

(* What a call c of a manager m has done before its turn c.next.           *)
TurnsTaken(c) ==
    /\ c.next \in Nat \ {0} /\ c.response \in Seq(Nat)
    /\ c.bad \cup c.out \subseteq 1..c.next - 1
    /\ In(c.response) = 1..c.next - 1 \ (c.bad \cup c.out)
    /\ \A i, j \in 1..Len(c.response) : i < j => c.response[i] < c.response[j]

Outcome(c, m) ==
    /\ c.status = "running" => c.next <= Len(c.queue) + 1
    /\ c.status = "returned" => c.next = Len(c.queue) + 1
    /\ c.status = "raised" => m.propagate /\ c.bad = {c.next - 1}
    /\ m.propagate /\ c.status # "raised" => c.bad = {}
    /\ m.cls \in {"driver", "hook"} /\ ~m.test => c.status # "raised"

CallInv == TurnsTaken(call) /\ Outcome(call, mgr)

LEMMA FairInv == CallInv => MapFair
  BY DEF CallInv, TurnsTaken, Outcome, MapFair, MapInOrder, QuietManagers

LEMMA NoTurn ==
    ASSUME NEW m, NEW c \in CallRecord, c.status \notin {"returned", "raised"},
           c.next = 1, c.response = <<>>, c.bad = {}, c.out = {}
    PROVE  TurnsTaken(c) /\ Outcome(c, m)
<1>1. Len(c.queue) \in Nat
  BY DEF CallRecord
<1>2. In(c.response) = {}
  BY DEF In
<1> QED
  BY <1>1, <1>2 DEF TurnsTaken, Outcome

(* The next extension responds, or raises or is turned down.               *)
LEMMA TurnResponds ==
    ASSUME NEW c, NEW d, TurnsTaken(c), d.next = c.next + 1,
           d.response = Append(c.response, c.next),
           d.bad = c.bad, d.out = c.out
    PROVE  TurnsTaken(d)
<1> DEFINE r == c.response  n == c.next
<1>1. /\ n \in Nat \ {0} /\ r \in Seq(Nat) /\ Len(r) \in Nat
      /\ c.bad \cup c.out \subseteq 1..n - 1
      /\ In(r) = 1..n - 1 \ (c.bad \cup c.out)
      /\ \A i, j \in 1..Len(r) : i < j => r[i] < r[j]
      /\ d.next = n + 1 /\ d.response = Append(r, n)
  BY DEF TurnsTaken
<1> HIDE DEF r, n
<1>2. /\ d.response \in Seq(Nat) /\ Len(d.response) = Len(r) + 1
      /\ \A i \in 1..Len(r) : d.response[i] = r[i]
      /\ d.response[Len(r) + 1] = n
  BY <1>1
<1>3. \A i \in 1..Len(d.response) : i \in 1..Len(r) \/ i = Len(r) + 1
  BY <1>1, <1>2
<1>4. In(d.response) = In(r) \cup {n}
  <2>1. \A x \in In(d.response) : x \in In(r) \cup {n}
    BY <1>2, <1>3 DEF In
  <2>2. \A x \in In(r) \cup {n} : x \in In(d.response)
    BY <1>1, <1>2 DEF In
  <2> QED
    BY <2>1, <2>2
<1>5. In(d.response) = 1..d.next - 1 \ (d.bad \cup d.out)
      /\ d.bad \cup d.out \subseteq 1..d.next - 1
  BY <1>1, <1>4
<1>6. \A i \in 1..Len(r) : r[i] < n
  <2>1. \A i \in 1..Len(r) : r[i] \in In(r)
    BY DEF In
  <2> QED
    BY <1>1, <2>1
<1>7. ASSUME NEW i \in 1..Len(d.response), NEW j \in 1..Len(d.response), i < j
      PROVE  d.response[i] < d.response[j]
  <2>1. i \in 1..Len(r)
    BY <1>1, <1>2, <1>7
  <2>2. CASE j \in 1..Len(r)
    BY <1>1, <1>2, <1>7, <2>1, <2>2
  <2>3. CASE j = Len(r) + 1
    BY <1>2, <1>6, <2>1, <2>3
  <2> QED
    BY <1>3, <2>2, <2>3
<1> QED
  BY <1>1, <1>2, <1>5, <1>7 DEF TurnsTaken

LEMMA TurnLost ==
    ASSUME NEW c, NEW d, TurnsTaken(c), d.next = c.next + 1,
           d.response = c.response,
           d.bad \cup d.out = c.bad \cup c.out \cup {c.next}
    PROVE  TurnsTaken(d)
<1>1. /\ 1..d.next - 1 = 1..c.next - 1 \cup {c.next} /\ c.next \notin 1..c.next - 1
      /\ d.next \in Nat \ {0}
  BY DEF TurnsTaken
<1> QED
  BY <1>1 DEF TurnsTaken

LEMMA MapStep == ASSUME IndInv, TypeInv, CallInv, Map PROVE CallInv'
<1> PICK c \in CallRecord : c = call
  BY DEF TypeInv
<1> PICK d \in CallRecord : d = call'
  BY MapType
<1>1. /\ UNCHANGED mgr /\ c.status = "running"
      /\ ~MapReturns => c.next <= Len(c.queue)
  BY DEF Map, FilterOut, Returns, Raises, Interrupted, MapReturns, OnNext,
     InMap, mgrVars
<1>2. /\ TurnsTaken(c) /\ Outcome(c, mgr)
      /\ c.next \in Nat /\ Len(c.queue) \in Nat
  BY DEF CallInv, CallRecord
<1>3. SUFFICES TurnsTaken(d) /\ Outcome(d, mgr)
  <2>1. TurnsTaken(d) <=> TurnsTaken(call)'
    BY DEF TurnsTaken, In
  <2>2. Outcome(d, mgr) <=> Outcome(call, mgr)'
    BY <1>1 DEF Outcome
  <2> QED
    BY <2>1, <2>2 DEF CallInv
<1>4. mgr.cls \in {"driver", "hook"} /\ ~mgr.test => ~mgr.propagate
  BY DEF IndInv, ManagerInv
<1>5. CASE c.next <= Len(c.queue) /\ d = [c EXCEPT !.status = "interrupted"]
  <2>1. /\ d.status = "interrupted" /\ d.next = c.next /\ d.response = c.response
        /\ d.bad = c.bad /\ d.out = c.out
    BY <1>5 DEF CallRecord
  <2> QED
    BY <1>1, <1>2, <2>1 DEF TurnsTaken, Outcome
<1>6. CASE FilterOut
  <2>1. CASE d = [c EXCEPT !.next = @ + 1, !.out = @ \cup {c.next}]
    <3>1. /\ d.status = "running" /\ d.next = c.next + 1 /\ d.queue = c.queue
          /\ d.response = c.response /\ d.bad = c.bad /\ d.out = c.out \cup {c.next}
      BY <1>1, <2>1 DEF CallRecord
    <3>2. d.bad \cup d.out = c.bad \cup c.out \cup {c.next}
      BY <3>1
    <3>3. c.next <= Len(c.queue)
      BY <1>6 DEF FilterOut, OnNext
    <3>4. TurnsTaken(d)
      BY <1>2, <3>1, <3>2, TurnLost
    <3>5. Outcome(d, mgr)
      BY <1>1, <1>2, <3>1, <3>3 DEF Outcome
    <3> QED
      BY <3>4, <3>5
  <2> QED
    BY <1>5, <1>6, <2>1 DEF FilterOut, OnNext
<1>7. CASE Returns
  <2>1. d = [c EXCEPT !.response = Append(@, c.next), !.next = @ + 1]
        /\ c.next <= Len(c.queue)
    BY <1>7 DEF Returns, OnNext
  <2>2. /\ d.status = "running" /\ d.next = c.next + 1 /\ d.queue = c.queue
        /\ d.response = Append(c.response, c.next) /\ d.bad = c.bad /\ d.out = c.out
    BY <1>1, <2>1 DEF CallRecord
  <2>3. TurnsTaken(d)
    BY <1>2, <2>2, TurnResponds
  <2>4. Outcome(d, mgr)
    BY <1>1, <1>2, <2>1, <2>2 DEF Outcome
  <2> QED
    BY <2>3, <2>4
<1>8. CASE Raises
  <2>1. d = [c EXCEPT !.bad = @ \cup {c.next}, !.next = @ + 1,
                      !.status = IF mgr.propagate THEN "raised" ELSE @]
        /\ c.next <= Len(c.queue)
    BY <1>8 DEF Raises, OnNext
  <2>2. /\ d.status = (IF mgr.propagate THEN "raised" ELSE "running")
        /\ d.next = c.next + 1 /\ d.queue = c.queue
        /\ d.response = c.response /\ d.bad = c.bad \cup {c.next} /\ d.out = c.out
    BY <1>1, <2>1 DEF CallRecord
  <2>3. d.bad \cup d.out = c.bad \cup c.out \cup {c.next}
    BY <2>2
  <2>4. TurnsTaken(d)
    BY <1>2, <2>2, <2>3, TurnLost
  <2>5. mgr.propagate => c.bad = {}
    BY <1>1, <1>2 DEF Outcome
  <2>6. Outcome(d, mgr)
    BY <1>2, <1>4, <2>1, <2>2, <2>5 DEF Outcome
  <2> QED
    BY <2>4, <2>6
<1>9. CASE MapReturns
  <2>1. d = [c EXCEPT !.status = "returned"] /\ c.next > Len(c.queue)
    BY <1>9 DEF MapReturns
  <2>2. /\ d.status = "returned" /\ d.next = c.next /\ d.response = c.response
        /\ d.bad = c.bad /\ d.out = c.out /\ d.queue = c.queue
    BY <2>1 DEF CallRecord
  <2> QED
    BY <1>1, <1>2, <2>1, <2>2 DEF TurnsTaken, Outcome
<1> QED
  BY <1>5, <1>6, <1>7, <1>8, <1>9 DEF Map, Interrupted, OnNext

LEMMA CallUnchanged == ASSUME CallInv, UNCHANGED <<mgr, call>> PROVE CallInv'
  BY DEF CallInv, TurnsTaken, Outcome, In

LEMMA NewCall ==
    ASSUME call' \in CallRecord, call'.status \notin {"returned", "raised"},
           call'.next = 1, call'.response = <<>>, call'.bad = {}, call'.out = {}
    PROVE  CallInv'
<1> PICK d \in CallRecord : d = call'
  OBVIOUS
<1>1. \A m : TurnsTaken(d) /\ Outcome(d, m)
  BY NoTurn
<1>2. TurnsTaken(d) <=> TurnsTaken(call)'
  BY DEF TurnsTaken, In
<1>3. Outcome(d, mgr') <=> Outcome(call, mgr)'
  BY DEF Outcome
<1> QED
  BY <1>1, <1>2, <1>3 DEF CallInv

LEMMA CallStep == ASSUME IndInv, TypeInv, CallInv, [Next]_vars PROVE CallInv'
<1>0. call' \in CallRecord
  BY TypeStep DEF TypeInv
<1>1. CASE call' = NoCall
  BY <1>0, <1>1, NewCall DEF NoCall
<1>3. CASE \E ep \in EntryPoint : Activate(ep)
  BY <1>3, CallUnchanged DEF Activate, mgrVars
<1>4. CASE \E c \in Class, ns \in NameLists \cup {<<>>}, o, p \in BOOLEAN,
              f \in {"log", "callback", "raise"}, m \in {"log", "raise"} :
             Construct([cls |-> c, names |-> ns, name_order |-> o,
                        on_failure |-> f, on_missing |-> m, propagate |-> p,
                        test |-> FALSE])
  BY <1>1, <1>4 DEF Construct, Blank
<1>5. CASE \E c \in Class, l \in TestLists, p \in BOOLEAN :
             make_test_instance(c, l, p)
  BY <1>1, <1>5 DEF make_test_instance
<1>6. CASE BuildIndex \/ UNCHANGED vars
  BY <1>6, CallUnchanged DEF BuildIndex, vars, mgrVars
<1>7. CASE \E ns \in NameLists \cup {<<>>} : map(ns)
  <2>1. PICK ns \in NameLists \cup {<<>>} : map(ns)
    BY <1>7
  <2>2. \/ call' = [NoCall EXCEPT !.status = "NoMatches"]
        \/ call' = [NoCall EXCEPT !.status = "running", !.queue = Queue(ns)]
    BY <2>1 DEF map
  <2>3. /\ call'.status \in {"NoMatches", "running"} /\ call'.next = 1
        /\ call'.response = <<>> /\ call'.bad = {} /\ call'.out = {}
    BY <2>2 DEF NoCall
  <2> QED
    BY <1>0, <2>3, NewCall
<1>8. CASE Load
  BY <1>8, CallUnchanged DEF Load, LoadSkip, LoadOne, LoadDisabled, LoadFails,
     LoadInterrupted, Resolve, Finish, Passed, mgrVars
<1>9. CASE Map
  BY <1>9, MapStep
<1> QED
  BY <1>3, <1>4, <1>5, <1>6, <1>7, <1>8, <1>9 DEF Next

(* MapFair: map goes through its extensions in order, each that neither    *)
(* raised nor was filtered out is in the response, one that raised costs   *)
(* nobody else their turn unless exceptions propagate, and those of hooks  *)
(* and drivers never do.                                                   *)
THEOREM MapIsFair == Spec => []MapFair
<1>1. Init => CallInv
  <2> SUFFICES ASSUME Init PROVE CallInv
    OBVIOUS
  <2>1. NoCall.status = "none" /\ NoCall.next = 1 /\ NoCall.response = <<>>
        /\ NoCall.bad = {} /\ NoCall.out = {} /\ call = NoCall
    BY DEF NoCall, Init
  <2> QED
    BY <2>1, NoCallType, NoTurn DEF CallInv
<1>2. IndInv /\ TypeInv /\ CallInv /\ [Next]_vars => (IndInv /\ TypeInv /\ CallInv)'
  BY CallStep, StepInv, TypeStep
<1> QED
  BY <1>1, <1>2, FairInv, InitInv, InitType, PTL DEF Spec
=============================================================================
