----------------------- MODULE OnapAutomation_proofs -----------------------
(***************************************************************************)
(* Proofs about OnapAutomation, for any regions, VNFs and policies and any *)
(* number of runs and failures: the script implements Deployment, it only  *)
(* dies of what AbortsExplained lists, and packages are not mixed up.      *)
(*                                                                         *)
(* IndInv says, command by command, what this run has left behind so far;  *)
(* the runs before it are done with.                                       *)
(***************************************************************************)
EXTENDS OnapAutomation, TLAPS

Setup == {"complex", "cloud", "associate", "multicloud", "service_type",
          "customer", "subscription", "vnfm"}
Sdc == {"onboard_vnf", "onboard_ns"}
Local == {"create_vnf", "create_ns_package", "upload_vnf", "upload_ns"}
Recording == {"hpa_sql", "sql", "commit"}
Policing == {"policy_create", "policy_push"}

(* What is left of a loop, by the command the script is at.                *)
LoopInv ==
    /\ pc \in {"cloud", "associate", "multicloud", "subscription"}
         => todo \in Seq(In(Regions)) /\ todo # <<>>
    /\ pc = "vnfm" => todo \in Seq(In(Vnfms)) /\ todo # <<>>
    /\ pc \in {"onboard_vnf", "create_vnf", "upload_vnf"}
         => /\ todo \in Seq(In(Vnfs))
            /\ In(todo) \subseteq In(config.vnfs)
            /\ todo = <<>> <=> config.vnfs = <<>>
    /\ pc \in Policing => todo \in Seq(In(Policies)) /\ todo # <<>>
    /\ pc \in Stopped \cup Recording
            \cup {"complex", "service_type", "customer", "onboard_ns",
                  "create_ns_package", "upload_ns", "create_ns",
                  "instantiate_ns"} => todo = <<>>

(* Which of the two branches the script is in; only the local one has the   *)
(* id of a network service package, or a word it takes for one.            *)
BranchInv ==
    /\ pc \in Setup => nsPkg = None
    /\ config.model = "sdc" => nsPkg = None
    /\ pc \in {"create_ns"} \cup Recording \cup Policing /\ nsPkg = None
         => config.model = "sdc"
    /\ pc \in Sdc => config.model = "sdc"
    /\ pc \in Local => config.model = "local"

(* The policy models: what is written but not committed, and which runs    *)
(* have theirs in the database.                                            *)
ModelInv ==
    /\ pc \notin Stopped => run > 0
    /\ pending = IF pc = "sql" THEN {"optimizationmodels"}
                 ELSE IF pc = "commit" THEN Table ELSE {}
    /\ db["optimizationmodels"] = db["microservicemodels"]
    /\ \A t \in Table : db[t] \subseteq 1..run
    /\ pc \in Setup \cup Sdc \cup Local \cup Recording
         => \A t \in Table : run \notin db[t]
    /\ pc \in Policing \cup {"create_ns", "instantiate_ns"}
         => \A t \in Table : run \in db[t]

(* The network services: this run has none before it creates one, and that *)
(* one is nobody else's.                                                   *)
ServiceInv ==
    /\ \A i \in 1..Len(instances) :
         instances[i].run <= run /\ instances[i].by \in {0, instances[i].run}
    /\ pc \in Setup \cup Sdc \cup Local \cup Recording \cup Policing
             \cup {"create_ns"} => Made(run) = {}
    /\ config.model = "sdc" => Made(run) = {}
    /\ pc = "instantiate_ns" /\ nsId # ErrorWord
         => /\ nsId \in 1..Len(instances) /\ Made(run) = {nsId}
            /\ instances[nsId].by = 0

(* The packages: the ids the script holds are those of packages it made    *)
(* for these things in this run, or words of errors once something failed. *)
IsPackage(id, x) ==
    /\ id \in 1..Len(packages)
    /\ packages[id].of = x /\ packages[id].run = run

PackageInv ==
    /\ Accepted => IsPackage(nsPkg, "ns")
    /\ \A v \in In(Vnfs) :
         vnfPkg[v] \notin {None, ErrorWord} => IsPackage(vnfPkg[v], v)
    /\ ~fault => nsPkg # ErrorWord /\ \A v \in In(Vnfs) : vnfPkg[v] # ErrorWord
    /\ pc \in {"upload_vnf", "upload_ns"} => nsPkg # None
    /\ pc = "create_vnf"
         => \A v \in In(config.vnfs) : vnfPkg[v] # None \/ v \in In(todo)
    /\ pc \in {"create_ns_package", "upload_vnf", "upload_ns"}
         => \A v \in In(config.vnfs) : vnfPkg[v] # None
    /\ ContentMatches

(* Their content, as long as nothing has failed.                           *)
Filled(id, x) == packages[id].content = x

ContentInv ==
    ~fault =>
      /\ pc = "upload_vnf"
           => \A v \in In(config.vnfs) : v \in In(todo) \/ Filled(vnfPkg[v], v)
      /\ pc = "upload_ns"
           => \A v \in In(config.vnfs) : Filled(vnfPkg[v], v)
      /\ pc \in Recording \cup Policing \cup {"create_ns"} /\ nsPkg # None
           => /\ Filled(nsPkg, "ns")
              /\ \A v \in In(config.vnfs) : vnfPkg[v] # None /\ Filled(vnfPkg[v], v)

IndInv ==
    /\ TypeOK /\ LoopInv /\ BranchInv /\ ModelInv /\ ServiceInv
    /\ PackageInv /\ ContentInv /\ ServicePackages /\ AbortsExplained

----------------------------------------------------------------------------
(* Sequences                                                               *)

LEMMA InSeq ==
    ASSUME NEW S, NEW s \in Seq(S)
    PROVE  /\ In(s) \subseteq S /\ s \in Seq(In(s))
           /\ s = <<>> <=> In(s) = {}
  BY DEF In

LEMMA HeadTail ==
    ASSUME NEW S, NEW s \in Seq(S), s # <<>>
    PROVE  /\ Head(s) \in S /\ Head(s) \in In(s)
           /\ Tail(s) \in Seq(S) /\ In(Tail(s)) \subseteq In(s)
           /\ \A x \in In(s) : x = Head(s) \/ x \in In(Tail(s))
           /\ Len(s) > 1 => Tail(s) # <<>>
           /\ ~(Len(s) > 1) => In(s) = {Head(s)}
<1>1. /\ Head(s) = s[1] /\ Tail(s) \in Seq(S) /\ Len(Tail(s)) = Len(s) - 1
      /\ \A i \in 1..Len(s) - 1 : Tail(s)[i] = s[i + 1]
      /\ Len(s) \in Nat /\ Len(s) > 0
  OBVIOUS
<1>2. \A x \in In(s) : x = Head(s) \/ x \in In(Tail(s))
  <2> SUFFICES ASSUME NEW i \in 1..Len(s), s[i] # Head(s)
               PROVE  s[i] \in In(Tail(s))
    BY DEF In
  <2>1. i - 1 \in 1..Len(Tail(s)) /\ Tail(s)[i - 1] = s[i]
    BY <1>1
  <2> QED
    BY <2>1 DEF In
<1>3. In(Tail(s)) \subseteq In(s) /\ Head(s) \in In(s) /\ Head(s) \in S
  BY <1>1 DEF In
<1>4. ~(Len(s) > 1) => In(s) = {Head(s)}
  BY <1>1 DEF In
<1>5. Len(s) > 1 => Tail(s) # <<>>
  <2>1. Len(s) > 1 => Len(Tail(s)) # 0
    BY <1>1
  <2> QED
    BY <2>1
<1> QED
  BY <1>1, <1>2, <1>3, <1>4, <1>5

LEMMA Appended ==
    ASSUME NEW S, NEW s \in Seq(S), NEW e \in S
    PROVE  /\ Append(s, e) \in Seq(S) /\ Len(Append(s, e)) = Len(s) + 1
           /\ \A i \in 1..Len(s) : Append(s, e)[i] = s[i]
           /\ Append(s, e)[Len(s) + 1] = e
           /\ Len(s) \in Nat
  OBVIOUS

(* The loops the configuration gives.                                      *)
LEMMA Configured ==
    /\ Regions \in Seq(In(Regions)) /\ Regions # <<>>
    /\ Vnfms \in Seq(In(Vnfms)) /\ Vnfms # <<>>
    /\ Policies \in Seq(In(Policies)) /\ Policies # <<>>
    /\ Vnfs \in Seq(In(Vnfs)) /\ Vnfs # <<>>
    /\ <<>> \in Seq(In(Vnfs)) /\ In(<<>>) = {}
  BY ConfigAssumption DEF In

----------------------------------------------------------------------------
(* One lemma for each part of the invariant, one step for each command     *)

(* Every command leaves the loop it is in, or the one it begins, in order.  *)
LEMMA LoopStep == ASSUME IndInv, [Next]_vars PROVE LoopInv'
<1> USE Configured
    DEF IndInv, LoopInv, TypeOK, Goto, Same, NextItem, System, Raise, Fault,
        NoFault, Outside, Skip, vars, script, vfc, sql, history, Stopped,
        Setup, Sdc, Local, Recording, Policing
<1>1. CASE create_complex
  BY <1>1 DEF create_complex
<1>2. CASE CloudCreate
  BY <1>2 DEF CloudCreate
<1>3. CASE ComplexAssociate
  BY <1>3 DEF ComplexAssociate
<1>4. CASE MulticloudRegister
  <2>1. Tail(todo) \in Seq(In(Regions)) /\ (Len(todo) > 1 => Tail(todo) # <<>>)
    BY <1>4, HeadTail DEF MulticloudRegister
  <2> QED
    BY <1>4, <2>1 DEF MulticloudRegister
<1>5. CASE create_service_type
  BY <1>5 DEF create_service_type
<1>6. CASE create_customer
  BY <1>6 DEF create_customer
<1>7. CASE add_customer_subscription
  <2>1. Tail(todo) \in Seq(In(Regions)) /\ (Len(todo) > 1 => Tail(todo) # <<>>)
    BY <1>7, HeadTail DEF add_customer_subscription, Subscribe
  <2> QED
    BY <1>7, <2>1 DEF add_customer_subscription, Subscribe
<1>8. CASE register_vnfm
  <2>1. Tail(todo) \in Seq(In(Vnfms)) /\ (Len(todo) > 1 => Tail(todo) # <<>>)
    BY <1>8, HeadTail DEF register_vnfm
  <2>2. config.vnfs \in Seq(In(Vnfs))
    OBVIOUS
  <2> QED
    BY <1>8, <2>1, <2>2 DEF register_vnfm, Branch
<1>9. CASE onboard_vnf
  BY <1>9 DEF onboard_vnf
<1>10. CASE onboard_ns
  BY <1>10 DEF onboard_ns
<1>11. CASE create_vnf_package
  <2>1. CASE todo # <<>>
    <3>1. /\ Tail(todo) \in Seq(In(Vnfs)) /\ (Len(todo) > 1 => Tail(todo) # <<>>)
          /\ In(Tail(todo)) \subseteq In(todo)
      BY <1>11, <2>1, HeadTail DEF create_vnf_package, CreatePackage
    <3> QED
      BY <1>11, <2>1, <3>1 DEF create_vnf_package, CreatePackage
  <2>2. CASE todo = <<>>
    BY <1>11, <2>2 DEF create_vnf_package, CreatePackage
  <2> QED
    BY <2>1, <2>2
<1>12. CASE create_ns_package
  <2>1. config.vnfs \in Seq(In(Vnfs))
    OBVIOUS
  <2>2. CASE Goto("upload_vnf", config.vnfs) /\ config' = config
    BY <2>1, <2>2
  <2>3. CASE pc' = "error" /\ todo' = <<>>
    BY <2>3
  <2> QED
    BY <1>12, <2>2, <2>3 DEF create_ns_package, CreatePackage
<1>13. CASE upload_vnf_package
  <2>1. CASE todo # <<>>
    <3>1. /\ Tail(todo) \in Seq(In(Vnfs)) /\ (Len(todo) > 1 => Tail(todo) # <<>>)
          /\ In(Tail(todo)) \subseteq In(todo)
      BY <1>13, <2>1, HeadTail DEF upload_vnf_package, Put
    <3> QED
      BY <1>13, <2>1, <3>1 DEF upload_vnf_package, Put
  <2>2. CASE todo = <<>>
    BY <1>13, <2>2 DEF upload_vnf_package, Put
  <2> QED
    BY <2>1, <2>2
<1>14. CASE upload_ns_package
  BY <1>14 DEF upload_ns_package, Put
<1>15. CASE DbFails
  BY <1>15 DEF DbFails
<1>16. CASE InsertOptimization
  BY <1>16 DEF InsertOptimization, Insert
<1>17. CASE InsertMicroservice
  BY <1>17 DEF InsertMicroservice, Insert
<1>18. CASE Commit
  BY <1>18 DEF Commit
<1>19. CASE PolicyCreate
  BY <1>19 DEF PolicyCreate, Unreliable
<1>20. CASE PolicyPush
  <2>1. Tail(todo) \in Seq(In(Policies)) /\ (Len(todo) > 1 => Tail(todo) # <<>>)
    BY <1>20, HeadTail DEF PolicyPush, Unreliable
  <2> QED
    BY <1>20, <2>1 DEF PolicyPush, Unreliable
<1>21. CASE ListdirFails
  BY <1>21 DEF ListdirFails
<1>22. CASE create_ns
  BY <1>22 DEF create_ns, CreateService, NewInstance
<1>23. CASE instantiate_ns
  BY <1>23 DEF instantiate_ns, Instantiate
<1>24. CASE Start
  BY <1>24 DEF Start
<1>25. CASE Kill
  BY <1>25 DEF Kill
<1>26. CASE UNCHANGED vars
  BY <1>26
<1> QED
  BY <1>1, <1>2, <1>3, <1>4, <1>5, <1>6, <1>7, <1>8, <1>9, <1>10, <1>11,
     <1>12, <1>13, <1>14, <1>15, <1>16, <1>17, <1>18, <1>19, <1>20, <1>21,
     <1>22, <1>23, <1>24, <1>25, <1>26
     DEF Next, Step, Inventory, Package, Policy

(* The branch is taken once; what raises without a fault is explained.      *)
LEMMA BranchStep == ASSUME IndInv, [Next]_vars PROVE BranchInv' /\ AbortsExplained'
<1> USE NoneAssumption
    DEF IndInv, LoopInv, BranchInv, AbortsExplained, TypeOK, Goto, Same,
        NextItem, System, Raise, Fault, NoFault, Outside, Skip, vars,
        script, vfc, sql, history, Stopped, Setup, Sdc, Local, Recording,
        Policing
<1>1. CASE create_complex
  BY <1>1 DEF create_complex
<1>2. CASE CloudCreate
  BY <1>2 DEF CloudCreate
<1>3. CASE ComplexAssociate
  BY <1>3 DEF ComplexAssociate
<1>4. CASE MulticloudRegister
  BY <1>4 DEF MulticloudRegister
<1>5. CASE create_service_type
  BY <1>5 DEF create_service_type
<1>6. CASE create_customer
  BY <1>6 DEF create_customer
<1>7. CASE add_customer_subscription
  BY <1>7 DEF add_customer_subscription, Subscribe
<1>8. CASE register_vnfm
  BY <1>8 DEF register_vnfm, Branch
<1>9. CASE onboard_vnf
  BY <1>9 DEF onboard_vnf
<1>10. CASE onboard_ns
  BY <1>10 DEF onboard_ns
<1>11. CASE create_vnf_package
  <2>1. /\ pc' \in {"create_vnf", "create_ns_package"} \/ (pc' = "error" /\ fault')
        /\ UNCHANGED <<config, nsPkg>> /\ config.model = "local"
    <3>1. pc = "create_vnf" /\ UNCHANGED <<config, nsPkg>>
      BY <1>11 DEF create_vnf_package
    <3>2. ASSUME NEW x, CreatePackage(x, ErrorWord), Raise
          PROVE  pc' = "error" /\ fault'
      <4>1. ErrorWord # Len(packages) + 1
        BY DEF ErrorWord
      <4> QED
        BY <3>2, <4>1 DEF CreatePackage
    <3> QED
      BY <1>11, <3>1, <3>2 DEF create_vnf_package
  <2> QED
    BY <2>1
<1>12. CASE create_ns_package
  <2>1. /\ (pc' = "upload_vnf" /\ nsPkg' \in Nat) \/ (pc' = "error" /\ fault')
        /\ UNCHANGED config /\ config.model = "local"
    BY <1>12 DEF create_ns_package, CreatePackage, ErrorWord
  <2> QED
    BY <2>1
<1>13. CASE upload_vnf_package
  <2>1. /\ \/ pc' \in {"upload_vnf", "upload_ns"}
           \/ pc' = "error" /\ (fault' \/ config.vnfs = <<>>)
        /\ UNCHANGED <<config, nsPkg>> /\ config.model = "local"
    BY <1>13 DEF upload_vnf_package, Put
  <2> QED
    BY <2>1
<1>14. CASE upload_ns_package
  <2>1. /\ pc' = "hpa_sql" \/ (pc' = "error" /\ fault')
        /\ UNCHANGED <<config, nsPkg>> /\ nsPkg # None
    BY <1>14 DEF upload_ns_package, Put, PackageInv
  <2> QED
    BY <2>1
<1>15. CASE DbFails
  BY <1>15 DEF DbFails
<1>16. CASE InsertOptimization
  BY <1>16 DEF InsertOptimization, Insert
<1>17. CASE InsertMicroservice
  BY <1>17 DEF InsertMicroservice, Insert
<1>18. CASE Commit
  BY <1>18 DEF Commit
<1>19. CASE PolicyCreate
  BY <1>19 DEF PolicyCreate, Unreliable
<1>20. CASE PolicyPush
  BY <1>20 DEF PolicyPush, Unreliable
<1>21. CASE ListdirFails
  BY <1>21 DEF ListdirFails
<1>22. CASE create_ns
  <2>1. /\ pc' \in {"instantiate_ns", "error"} /\ UNCHANGED <<config, nsPkg>>
        /\ pc' = "error" => fault' \/ (~Accepted /\ UNCHANGED fault)
    <3>1. ErrorWord # Len(instances) + 1
      BY DEF ErrorWord
    <3>2. CreateService(ErrorWord) => fault' \/ (~Accepted /\ UNCHANGED fault)
      BY <3>1 DEF CreateService
    <3> QED
      BY <1>22, <3>2 DEF create_ns
  <2>2. ~Accepted => fault \/ config.model = "sdc"
    BY <1>22 DEF create_ns, Accepted, PackageInv
  <2> QED
    BY <2>1, <2>2
<1>23. CASE instantiate_ns
  BY <1>23 DEF instantiate_ns, Instantiate
<1>24. CASE Start
  BY <1>24 DEF Start
<1>25. CASE Kill
  BY <1>25 DEF Kill
<1>26. CASE UNCHANGED vars
  BY <1>26
<1> QED
  BY <1>1, <1>2, <1>3, <1>4, <1>5, <1>6, <1>7, <1>8, <1>9, <1>10, <1>11,
     <1>12, <1>13, <1>14, <1>15, <1>16, <1>17, <1>18, <1>19, <1>20, <1>21,
     <1>22, <1>23, <1>24, <1>25, <1>26
     DEF Next, Step, Inventory, Package, Policy

(* Rows are written, committed and rolled back together.                    *)
LEMMA ModelStep == ASSUME IndInv, [Next]_vars PROVE ModelInv'
<1> USE DEF IndInv, ModelInv, TypeOK, Goto, Same, NextItem, System, Raise,
        Fault, NoFault, Outside, Skip, vars, script, vfc, sql, history,
        Stopped, Setup, Sdc, Local, Recording, Policing, Table
<1>1. CASE create_complex
  BY <1>1 DEF create_complex
<1>2. CASE CloudCreate
  BY <1>2 DEF CloudCreate
<1>3. CASE ComplexAssociate
  BY <1>3 DEF ComplexAssociate
<1>4. CASE MulticloudRegister
  BY <1>4 DEF MulticloudRegister
<1>5. CASE create_service_type
  BY <1>5 DEF create_service_type
<1>6. CASE create_customer
  BY <1>6 DEF create_customer
<1>7. CASE add_customer_subscription
  BY <1>7 DEF add_customer_subscription, Subscribe
<1>8. CASE register_vnfm
  BY <1>8 DEF register_vnfm, Branch
<1>9. CASE onboard_vnf
  BY <1>9 DEF onboard_vnf
<1>10. CASE onboard_ns
  BY <1>10 DEF onboard_ns
<1>11. CASE create_vnf_package
  BY <1>11 DEF create_vnf_package, CreatePackage
<1>12. CASE create_ns_package
  BY <1>12 DEF create_ns_package, CreatePackage
<1>13. CASE upload_vnf_package
  BY <1>13 DEF upload_vnf_package, Put
<1>14. CASE upload_ns_package
  BY <1>14 DEF upload_ns_package, Put
<1>15. CASE DbFails
  BY <1>15 DEF DbFails
<1>16. CASE InsertOptimization
  BY <1>16 DEF InsertOptimization, Insert
<1>17. CASE InsertMicroservice
  BY <1>17 DEF InsertMicroservice, Insert
<1>18. CASE Commit
  BY <1>18 DEF Commit
<1>19. CASE PolicyCreate
  BY <1>19 DEF PolicyCreate, Unreliable
<1>20. CASE PolicyPush
  BY <1>20 DEF PolicyPush, Unreliable
<1>21. CASE ListdirFails
  BY <1>21 DEF ListdirFails
<1>22. CASE create_ns
  BY <1>22 DEF create_ns, CreateService, NewInstance
<1>23. CASE instantiate_ns
  BY <1>23 DEF instantiate_ns, Instantiate
<1>24. CASE Start
  BY <1>24 DEF Start
<1>25. CASE Kill
  BY <1>25 DEF Kill
<1>26. CASE UNCHANGED vars
  BY <1>26
<1> QED
  BY <1>1, <1>2, <1>3, <1>4, <1>5, <1>6, <1>7, <1>8, <1>9, <1>10, <1>11,
     <1>12, <1>13, <1>14, <1>15, <1>16, <1>17, <1>18, <1>19, <1>20, <1>21,
     <1>22, <1>23, <1>24, <1>25, <1>26
     DEF Next, Step, Inventory, Package, Policy

(* Types, in three parts: the control and the tables, what is left of the  *)
(* loop, and the catalog with the ids into it.                             *)
LEMMA SeqGrows ==
    ASSUME NEW S, NEW T, S \subseteq T, NEW s \in Seq(S)
    PROVE  s \in Seq(T)
<1>1. Len(s) \in Nat /\ s \in [1..Len(s) -> S]
  OBVIOUS
<1>2. s \in [1..Len(s) -> T]
  BY <1>1
<1> QED
  BY <1>1, <1>2

Loops == In(Regions) \cup In(Vnfms) \cup In(Vnfs) \cup In(Policies)

ControlType ==
    /\ pc \in Stopped \cup Setup \cup Sdc \cup Local \cup Recording
             \cup Policing \cup {"create_ns", "instantiate_ns"}
    /\ config \in [model : {"sdc", "local"}, vnfs : {<<>>, Vnfs}]
    /\ first \in BOOLEAN
    /\ db \in [Table -> SUBSET (1..MaxRuns)]
    /\ pending \in SUBSET Table
    /\ run \in 0..MaxRuns
    /\ fault \in BOOLEAN /\ faults \in 0..MaxFaults

PackageType == [of : In(Vnfs) \cup {"ns"}, run : 1..MaxRuns,
                content : In(Vnfs) \cup {"ns", "empty"}]
InstanceType == [csar : Nat, run : 1..MaxRuns,
                 vnfs : {<<>>, Vnfs}, sound : BOOLEAN, by : 0..MaxRuns]

CatalogType ==
    /\ vnfPkg \in [In(Vnfs) -> Nat \cup {None}]
    /\ nsPkg \in Nat \cup {None} /\ nsId \in Nat \cup {None}
    /\ packages \in Seq(PackageType)
    /\ instances \in Seq(InstanceType)

(* What the steps below use of the invariant.                              *)
LEMMA Typed == ASSUME IndInv
               PROVE  /\ CatalogType /\ ControlType
                      /\ pc \notin Stopped => run \in 1..MaxRuns
                      /\ pc \in {"create_vnf", "upload_vnf"} => todo \in Seq(In(Vnfs))
<1>1. CatalogType
  BY DEF IndInv, TypeOK, CatalogType, PackageType, InstanceType
<1>2. ControlType
  BY DEF IndInv, TypeOK, ControlType, Stopped, Setup, Sdc, Local, Recording, Policing
<1>3. pc \notin Stopped => run \in 1..MaxRuns
  BY <1>2, BoundAssumption DEF IndInv, ModelInv, ControlType
<1>4. pc \in {"create_vnf", "upload_vnf"} => todo \in Seq(In(Vnfs))
  BY DEF IndInv, LoopInv
<1> QED
  BY <1>1, <1>2, <1>3, <1>4

LEMMA Edited ==
    ASSUME NEW S, NEW s \in Seq(S), NEW i, NEW e, i \in 1..Len(s) => e \in S
    PROVE  /\ [s EXCEPT ![i] = e] \in Seq(S)
           /\ Len([s EXCEPT ![i] = e]) = Len(s)
           /\ i \in 1..Len(s) => [s EXCEPT ![i] = e][i] = e
           /\ \A j \in 1..Len(s) : j # i => [s EXCEPT ![i] = e][j] = s[j]
<1> DEFINE t == [s EXCEPT ![i] = e]
<1>1. Len(s) \in Nat /\ s \in [1..Len(s) -> S]
  OBVIOUS
<1>2. t \in [1..Len(s) -> S]
  BY <1>1
<1>3. t \in Seq(S)
  BY <1>1, <1>2
<1>4. Len(t) = Len(s)
  BY <1>1, <1>2, <1>3
<1> QED
  BY <1>1, <1>3, <1>4

LEMMA Counted == IndInv => run \in 0..MaxRuns /\ faults \in 0..MaxFaults
  BY Typed DEF ControlType

LEMMA Flagged == IndInv => fault \in BOOLEAN
  BY Typed DEF ControlType

(* The counters stay within their bounds.                                  *)
LEMMA CountStep == ASSUME IndInv, [Next]_vars PROVE run' \in 0..MaxRuns /\ faults' \in 0..MaxFaults
<1> USE BoundAssumption, Counted
    DEF Fault, NoFault, System, Outside, Skip, history, vars
<1>1. CASE create_complex
  BY <1>1 DEF create_complex
<1>2. CASE CloudCreate
  BY <1>2 DEF CloudCreate
<1>3. CASE ComplexAssociate
  BY <1>3 DEF ComplexAssociate
<1>4. CASE MulticloudRegister
  BY <1>4 DEF MulticloudRegister
<1>5. CASE create_service_type
  BY <1>5 DEF create_service_type
<1>6. CASE create_customer
  BY <1>6 DEF create_customer
<1>7. CASE add_customer_subscription
  BY <1>7 DEF add_customer_subscription, Subscribe
<1>8. CASE register_vnfm
  BY <1>8 DEF register_vnfm, Branch
<1>9. CASE onboard_vnf
  BY <1>9 DEF onboard_vnf
<1>10. CASE onboard_ns
  BY <1>10 DEF onboard_ns
<1>11. CASE create_vnf_package
  BY <1>11 DEF create_vnf_package, CreatePackage
<1>12. CASE create_ns_package
  BY <1>12 DEF create_ns_package, CreatePackage
<1>13. CASE upload_vnf_package
  BY <1>13 DEF upload_vnf_package, Put
<1>14. CASE upload_ns_package
  BY <1>14 DEF upload_ns_package, Put
<1>15. CASE DbFails
  BY <1>15 DEF DbFails
<1>16. CASE InsertOptimization
  BY <1>16 DEF InsertOptimization, Insert
<1>17. CASE InsertMicroservice
  BY <1>17 DEF InsertMicroservice, Insert
<1>18. CASE Commit
  BY <1>18 DEF Commit
<1>19. CASE PolicyCreate
  BY <1>19 DEF PolicyCreate, Unreliable
<1>20. CASE PolicyPush
  BY <1>20 DEF PolicyPush, Unreliable
<1>21. CASE ListdirFails
  BY <1>21 DEF ListdirFails
<1>22. CASE create_ns
  BY <1>22 DEF create_ns, CreateService, NewInstance
<1>23. CASE instantiate_ns
  BY <1>23 DEF instantiate_ns, Instantiate
<1>24. CASE Start
  BY <1>24 DEF Start
<1>25. CASE Kill
  BY <1>25 DEF Kill
<1>26. CASE UNCHANGED vars
  BY <1>26
<1> QED
  BY <1>1, <1>2, <1>3, <1>4, <1>5, <1>6, <1>7, <1>8, <1>9, <1>10, <1>11,
     <1>12, <1>13, <1>14, <1>15, <1>16, <1>17, <1>18, <1>19, <1>20, <1>21,
     <1>22, <1>23, <1>24, <1>25, <1>26
     DEF Next, Step, Inventory, Package, Policy

(* The flag of this run's faults.                                          *)
LEMMA FaultStep == ASSUME IndInv, [Next]_vars PROVE fault' \in BOOLEAN
<1> USE Flagged
    DEF Fault, NoFault, System, Outside, Skip, history, vars
<1>1. CASE create_complex
  BY <1>1 DEF create_complex
<1>2. CASE CloudCreate
  BY <1>2 DEF CloudCreate
<1>3. CASE ComplexAssociate
  BY <1>3 DEF ComplexAssociate
<1>4. CASE MulticloudRegister
  BY <1>4 DEF MulticloudRegister
<1>5. CASE create_service_type
  BY <1>5 DEF create_service_type
<1>6. CASE create_customer
  BY <1>6 DEF create_customer
<1>7. CASE add_customer_subscription
  BY <1>7 DEF add_customer_subscription, Subscribe
<1>8. CASE register_vnfm
  BY <1>8 DEF register_vnfm, Branch
<1>9. CASE onboard_vnf
  BY <1>9 DEF onboard_vnf
<1>10. CASE onboard_ns
  BY <1>10 DEF onboard_ns
<1>11. CASE create_vnf_package
  BY <1>11 DEF create_vnf_package, CreatePackage
<1>12. CASE create_ns_package
  BY <1>12 DEF create_ns_package, CreatePackage
<1>13. CASE upload_vnf_package
  BY <1>13 DEF upload_vnf_package, Put
<1>14. CASE upload_ns_package
  BY <1>14 DEF upload_ns_package, Put
<1>15. CASE DbFails
  BY <1>15 DEF DbFails
<1>16. CASE InsertOptimization
  BY <1>16 DEF InsertOptimization, Insert
<1>17. CASE InsertMicroservice
  BY <1>17 DEF InsertMicroservice, Insert
<1>18. CASE Commit
  BY <1>18 DEF Commit
<1>19. CASE PolicyCreate
  BY <1>19 DEF PolicyCreate, Unreliable
<1>20. CASE PolicyPush
  BY <1>20 DEF PolicyPush, Unreliable
<1>21. CASE ListdirFails
  BY <1>21 DEF ListdirFails
<1>22. CASE create_ns
  BY <1>22 DEF create_ns, CreateService, NewInstance
<1>23. CASE instantiate_ns
  BY <1>23 DEF instantiate_ns, Instantiate
<1>24. CASE Start
  BY <1>24 DEF Start
<1>25. CASE Kill
  BY <1>25 DEF Kill
<1>26. CASE UNCHANGED vars
  BY <1>26
<1> QED
  BY <1>1, <1>2, <1>3, <1>4, <1>5, <1>6, <1>7, <1>8, <1>9, <1>10, <1>11,
     <1>12, <1>13, <1>14, <1>15, <1>16, <1>17, <1>18, <1>19, <1>20, <1>21,
     <1>22, <1>23, <1>24, <1>25, <1>26
     DEF Next, Step, Inventory, Package, Policy

(* The tables hold the rows of runs.                                       *)
LEMMA TableStep == ASSUME IndInv, [Next]_vars PROVE db' \in [Table -> SUBSET (1..MaxRuns)] /\ pending' \in SUBSET Table
<1> USE Typed
    DEF ControlType, System, Raise, Outside, Skip, sql, vars, Stopped
<1>1. CASE create_complex
  BY <1>1 DEF create_complex
<1>2. CASE CloudCreate
  BY <1>2 DEF CloudCreate
<1>3. CASE ComplexAssociate
  BY <1>3 DEF ComplexAssociate
<1>4. CASE MulticloudRegister
  BY <1>4 DEF MulticloudRegister
<1>5. CASE create_service_type
  BY <1>5 DEF create_service_type
<1>6. CASE create_customer
  BY <1>6 DEF create_customer
<1>7. CASE add_customer_subscription
  BY <1>7 DEF add_customer_subscription, Subscribe
<1>8. CASE register_vnfm
  BY <1>8 DEF register_vnfm, Branch
<1>9. CASE onboard_vnf
  BY <1>9 DEF onboard_vnf
<1>10. CASE onboard_ns
  BY <1>10 DEF onboard_ns
<1>11. CASE create_vnf_package
  BY <1>11 DEF create_vnf_package, CreatePackage
<1>12. CASE create_ns_package
  BY <1>12 DEF create_ns_package, CreatePackage
<1>13. CASE upload_vnf_package
  BY <1>13 DEF upload_vnf_package, Put
<1>14. CASE upload_ns_package
  BY <1>14 DEF upload_ns_package, Put
<1>15. CASE DbFails
  BY <1>15 DEF DbFails
<1>16. CASE InsertOptimization
  BY <1>16 DEF InsertOptimization, Insert, Table
<1>17. CASE InsertMicroservice
  BY <1>17 DEF InsertMicroservice, Insert, Table
<1>18. CASE Commit
  BY <1>18 DEF Commit
<1>19. CASE PolicyCreate
  BY <1>19 DEF PolicyCreate, Unreliable
<1>20. CASE PolicyPush
  BY <1>20 DEF PolicyPush, Unreliable
<1>21. CASE ListdirFails
  BY <1>21 DEF ListdirFails
<1>22. CASE create_ns
  BY <1>22 DEF create_ns, CreateService, NewInstance
<1>23. CASE instantiate_ns
  BY <1>23 DEF instantiate_ns, Instantiate
<1>24. CASE Start
  BY <1>24 DEF Start
<1>25. CASE Kill
  BY <1>25 DEF Kill
<1>26. CASE UNCHANGED vars
  BY <1>26
<1> QED
  BY <1>1, <1>2, <1>3, <1>4, <1>5, <1>6, <1>7, <1>8, <1>9, <1>10, <1>11,
     <1>12, <1>13, <1>14, <1>15, <1>16, <1>17, <1>18, <1>19, <1>20, <1>21,
     <1>22, <1>23, <1>24, <1>25, <1>26
     DEF Next, Step, Inventory, Package, Policy

(* The place in the script and its input.                                  *)
LEMMA PlaceStep == ASSUME IndInv, [Next]_vars PROVE 
               /\ pc' \in Stopped \cup Setup \cup Sdc \cup Local \cup Recording
                        \cup Policing \cup {"create_ns", "instantiate_ns"}
               /\ config' \in [model : {"sdc", "local"}, vnfs : {<<>>, Vnfs}]
               /\ first' \in BOOLEAN
<1> USE Typed
    DEF ControlType, System, Raise, Outside, Skip, Goto, Same, NextItem,
        script, vars, Stopped, Setup, Sdc, Local, Recording, Policing
<1>1. CASE create_complex
  BY <1>1 DEF create_complex
<1>2. CASE CloudCreate
  BY <1>2 DEF CloudCreate
<1>3. CASE ComplexAssociate
  BY <1>3 DEF ComplexAssociate
<1>4. CASE MulticloudRegister
  BY <1>4 DEF MulticloudRegister
<1>5. CASE create_service_type
  BY <1>5 DEF create_service_type
<1>6. CASE create_customer
  BY <1>6 DEF create_customer
<1>7. CASE add_customer_subscription
  BY <1>7 DEF add_customer_subscription, Subscribe
<1>8. CASE register_vnfm
  BY <1>8 DEF register_vnfm, Branch
<1>9. CASE onboard_vnf
  BY <1>9 DEF onboard_vnf
<1>10. CASE onboard_ns
  BY <1>10 DEF onboard_ns
<1>11. CASE create_vnf_package
  BY <1>11 DEF create_vnf_package, CreatePackage
<1>12. CASE create_ns_package
  BY <1>12 DEF create_ns_package, CreatePackage
<1>13. CASE upload_vnf_package
  BY <1>13 DEF upload_vnf_package, Put
<1>14. CASE upload_ns_package
  BY <1>14 DEF upload_ns_package, Put
<1>15. CASE DbFails
  BY <1>15 DEF DbFails
<1>16. CASE InsertOptimization
  BY <1>16 DEF InsertOptimization, Insert
<1>17. CASE InsertMicroservice
  BY <1>17 DEF InsertMicroservice, Insert
<1>18. CASE Commit
  BY <1>18 DEF Commit
<1>19. CASE PolicyCreate
  BY <1>19 DEF PolicyCreate, Unreliable
<1>20. CASE PolicyPush
  BY <1>20 DEF PolicyPush, Unreliable
<1>21. CASE ListdirFails
  BY <1>21 DEF ListdirFails
<1>22. CASE create_ns
  BY <1>22 DEF create_ns, CreateService, NewInstance
<1>23. CASE instantiate_ns
  BY <1>23 DEF instantiate_ns, Instantiate
<1>24. CASE Start
  BY <1>24 DEF Start
<1>25. CASE Kill
  BY <1>25 DEF Kill
<1>26. CASE UNCHANGED vars
  BY <1>26
<1> QED
  BY <1>1, <1>2, <1>3, <1>4, <1>5, <1>6, <1>7, <1>8, <1>9, <1>10, <1>11,
     <1>12, <1>13, <1>14, <1>15, <1>16, <1>17, <1>18, <1>19, <1>20, <1>21,
     <1>22, <1>23, <1>24, <1>25, <1>26
     DEF Next, Step, Inventory, Package, Policy

LEMMA ControlStep == ASSUME IndInv, [Next]_vars PROVE ControlType'
  BY CountStep, FaultStep, TableStep, PlaceStep DEF ControlType

LEMMA LoopType == ASSUME ControlType', LoopInv' PROVE todo' \in Seq(Loops)
<1> USE DEF Setup, Sdc, Local, Recording, Policing, Stopped
<1> DEFINE Over(S) == S \subseteq Loops /\ todo' \in Seq(S)
<1>1. CASE pc' \in {"cloud", "associate", "multicloud", "subscription"}
  <2>1. Over(In(Regions))
    BY <1>1 DEF LoopInv, Loops
  <2> QED
    BY <2>1, SeqGrows
<1>2. CASE pc' = "vnfm"
  <2>1. Over(In(Vnfms))
    BY <1>2 DEF LoopInv, Loops
  <2> QED
    BY <2>1, SeqGrows
<1>3. CASE pc' \in {"onboard_vnf", "create_vnf", "upload_vnf"}
  <2>1. Over(In(Vnfs))
    BY <1>3 DEF LoopInv, Loops
  <2> QED
    BY <2>1, SeqGrows
<1>4. CASE pc' \in Policing
  <2>1. Over(In(Policies))
    BY <1>4 DEF LoopInv, Loops
  <2> QED
    BY <2>1, SeqGrows
<1>5. CASE todo' = <<>>
  BY <1>5
<1> QED
  BY <1>1, <1>2, <1>3, <1>4, <1>5 DEF ControlType, LoopInv

(* All commands keep the catalog and the ids into it in range.             *)
LEMMA CatalogStep == ASSUME IndInv, [Next]_vars PROVE CatalogType'
<1> USE Typed, BoundAssumption
    DEF CatalogType, Goto, Same, NextItem, System, Raise, Fault, NoFault,
        Outside, Skip, vars, script, vfc, sql, history, Stopped
<1>1. CASE create_complex
  BY <1>1 DEF create_complex
<1>2. CASE CloudCreate
  BY <1>2 DEF CloudCreate
<1>3. CASE ComplexAssociate
  BY <1>3 DEF ComplexAssociate
<1>4. CASE MulticloudRegister
  BY <1>4 DEF MulticloudRegister
<1>5. CASE create_service_type
  BY <1>5 DEF create_service_type
<1>6. CASE create_customer
  BY <1>6 DEF create_customer
<1>7. CASE add_customer_subscription
  BY <1>7 DEF add_customer_subscription, Subscribe
<1>8. CASE register_vnfm
  BY <1>8 DEF register_vnfm, Branch
<1>9. CASE onboard_vnf
  BY <1>9 DEF onboard_vnf
<1>10. CASE onboard_ns
  <2>1. packages' = packages \/ \E e \in PackageType : packages' = Append(packages, e)
    BY <1>10 DEF onboard_ns, PackageType
  <2>2. packages' \in Seq(PackageType) /\ Len(packages) + 1 \in Nat
    BY <2>1, Appended, SMTT(60)
  <2> QED
    BY <1>10, <2>2 DEF onboard_ns
<1>11. CASE create_vnf_package
  <2>1. CASE todo # <<>>
    <3>1. Head(todo) \in In(Vnfs)
      BY <1>11, <2>1, HeadTail DEF create_vnf_package
    <3>2. packages' = packages \/ \E e \in PackageType : packages' = Append(packages, e)
      BY <1>11, <3>1 DEF create_vnf_package, CreatePackage, PackageType
    <3>3. packages' \in Seq(PackageType) /\ Len(packages) + 1 \in Nat
      BY <3>2, Appended, SMTT(60)
    <3>4. ErrorWord \in Nat
      BY DEF ErrorWord
    <3> QED
      BY <1>11, <3>1, <3>3, <3>4 DEF create_vnf_package
  <2>2. CASE todo = <<>>
    BY <1>11, <2>2 DEF create_vnf_package
  <2> QED
    BY <2>1, <2>2
<1>12. CASE create_ns_package
  <2>1. packages' = packages \/ \E e \in PackageType : packages' = Append(packages, e)
    BY <1>12 DEF create_ns_package, CreatePackage, PackageType
  <2>2. packages' \in Seq(PackageType) /\ Len(packages) + 1 \in Nat
    BY <2>1, Appended, SMTT(60)
  <2>3. ErrorWord \in Nat
    BY DEF ErrorWord
  <2> QED
    BY <1>12, <2>2, <2>3 DEF create_ns_package
<1>13. CASE upload_vnf_package
  <2>1. CASE todo # <<>>
    <3>1. Head(todo) \in In(Vnfs)
      BY <1>13, <2>1, HeadTail DEF upload_vnf_package
    <3> DEFINE p == vnfPkg[Head(todo)]
               e == [packages[p] EXCEPT !.content = Head(todo)]
    <3>2. packages' = packages \/ packages' = [packages EXCEPT ![p] = e]
      BY <1>13, <2>1 DEF upload_vnf_package, Put
    <3>3. p \in 1..Len(packages) => e \in PackageType
      <4>1. p \in 1..Len(packages) => packages[p] \in PackageType
        OBVIOUS
      <4> QED
        BY <3>1, <4>1 DEF PackageType
    <3>4. [packages EXCEPT ![p] = e] \in Seq(PackageType)
      BY <3>3, Edited
    <3> QED
      BY <1>13, <3>2, <3>4 DEF upload_vnf_package
  <2>2. CASE todo = <<>>
    BY <1>13, <2>2 DEF upload_vnf_package
  <2> QED
    BY <2>1, <2>2
<1>14. CASE upload_ns_package
  <2> DEFINE e == [packages[nsPkg] EXCEPT !.content = "ns"]
  <2>1. packages' = packages \/ packages' = [packages EXCEPT ![nsPkg] = e]
    BY <1>14 DEF upload_ns_package, Put
  <2>2. nsPkg \in 1..Len(packages) => e \in PackageType
    <3>1. nsPkg \in 1..Len(packages) => packages[nsPkg] \in PackageType
      OBVIOUS
    <3> QED
      BY <3>1 DEF PackageType
  <2>3. [packages EXCEPT ![nsPkg] = e] \in Seq(PackageType)
    BY <2>2, Edited
  <2> QED
    BY <1>14, <2>1, <2>3 DEF upload_ns_package
<1>15. CASE DbFails
  BY <1>15 DEF DbFails
<1>16. CASE InsertOptimization
  BY <1>16 DEF InsertOptimization, Insert
<1>17. CASE InsertMicroservice
  BY <1>17 DEF InsertMicroservice, Insert
<1>18. CASE Commit
  BY <1>18 DEF Commit
<1>19. CASE PolicyCreate
  BY <1>19 DEF PolicyCreate, Unreliable
<1>20. CASE PolicyPush
  BY <1>20 DEF PolicyPush, Unreliable
<1>21. CASE ListdirFails
  BY <1>21 DEF ListdirFails
<1>22. CASE create_ns
  <2> DEFINE e == [csar |-> nsPkg, run |-> run, vnfs |-> config.vnfs,
                   sound |-> ~fault, by |-> 0]
  <2>1. instances' = instances \/ (Accepted /\ instances' = Append(instances, e))
    BY <1>22 DEF create_ns, CreateService, NewInstance
  <2>2. Accepted => e \in InstanceType
    BY <1>22 DEF create_ns, InstanceType, ControlType, Accepted
  <2>3. instances' \in Seq(InstanceType) /\ Len(instances) + 1 \in Nat
    BY <2>1, <2>2, Appended, SMTT(60)
  <2>4. ErrorWord \in Nat
    BY DEF ErrorWord
  <2> QED
    BY <1>22, <2>3, <2>4 DEF create_ns
<1>23. CASE instantiate_ns
  <2> DEFINE e == [instances[nsId] EXCEPT !.by = run]
  <2>1. instances' = instances \/ instances' = [instances EXCEPT ![nsId] = e]
    BY <1>23 DEF instantiate_ns, Instantiate
  <2>2. nsId \in 1..Len(instances) => e \in InstanceType
    <3>1. nsId \in 1..Len(instances) => instances[nsId] \in InstanceType
      OBVIOUS
    <3> QED
      BY <3>1 DEF InstanceType, ControlType
  <2>3. [instances EXCEPT ![nsId] = e] \in Seq(InstanceType)
    BY <2>2, Edited
  <2> QED
    BY <1>23, <2>1, <2>3 DEF instantiate_ns, Instantiate
<1>24. CASE Start
  BY <1>24 DEF Start
<1>25. CASE Kill
  BY <1>25 DEF Kill
<1>26. CASE UNCHANGED vars
  BY <1>26
<1> QED
  BY <1>1, <1>2, <1>3, <1>4, <1>5, <1>6, <1>7, <1>8, <1>9, <1>10, <1>11,
     <1>12, <1>13, <1>14, <1>15, <1>16, <1>17, <1>18, <1>19, <1>20, <1>21,
     <1>22, <1>23, <1>24, <1>25, <1>26
     DEF Next, Step, Inventory, Package, Policy

LEMMA TypeStep == ASSUME IndInv, [Next]_vars PROVE TypeOK'
<1>1. ControlType' /\ LoopInv' /\ CatalogType'
  BY ControlStep, LoopStep, CatalogStep
<1>2. todo' \in Seq(Loops)
  BY <1>1, LoopType
<1> QED
  BY <1>1, <1>2 DEF TypeOK, ControlType, CatalogType, Loops, PackageType,
     InstanceType, Stopped, Setup, Sdc, Local, Recording, Policing

LEMMA NewEntry ==
    ASSUME IndInv, pc = "create_ns", Accepted
    PROVE  [csar |-> nsPkg, run |-> run, vnfs |-> config.vnfs,
            sound |-> ~fault, by |-> 0] \in InstanceType
<1>1. CatalogType /\ ControlType /\ run \in 1..MaxRuns /\ 0 \in 0..MaxRuns
  BY Typed, BoundAssumption DEF Stopped
<1>2. config.vnfs \in {<<>>, Vnfs} /\ (~fault) \in BOOLEAN
  BY <1>1 DEF ControlType
<1> QED
  BY <1>1, <1>2 DEF CatalogType, InstanceType, Accepted

LEMMA RunsAreNumbers ==
    ASSUME IndInv
    PROVE  run \in Nat /\ \A i \in 1..Len(instances) : instances[i].run \in Nat
<1>1. run \in Nat
  BY Typed DEF ControlType
<1>2. \A i \in 1..Len(instances) : instances[i] \in InstanceType
  BY Typed DEF CatalogType
<1> QED
  BY <1>1, <1>2 DEF InstanceType

(* A service is made once in a run, and instantiated once.                 *)
LEMMA ServiceStep == ASSUME IndInv, [Next]_vars PROVE ServiceInv'
<1> USE DEF IndInv, ServiceInv, Made, Goto, Same, NextItem, System, Raise,
        Fault, NoFault, Outside, Skip, vars, script, vfc, sql, history,
        Stopped, Setup, Sdc, Local, Recording, Policing
<1>1. CASE create_complex
  BY <1>1 DEF create_complex
<1>2. CASE CloudCreate
  BY <1>2 DEF CloudCreate
<1>3. CASE ComplexAssociate
  BY <1>3 DEF ComplexAssociate
<1>4. CASE MulticloudRegister
  BY <1>4 DEF MulticloudRegister
<1>5. CASE create_service_type
  BY <1>5 DEF create_service_type
<1>6. CASE create_customer
  BY <1>6 DEF create_customer
<1>7. CASE add_customer_subscription
  BY <1>7 DEF add_customer_subscription, Subscribe
<1>8. CASE register_vnfm
  BY <1>8 DEF register_vnfm, Branch
<1>9. CASE onboard_vnf
  BY <1>9 DEF onboard_vnf
<1>10. CASE onboard_ns
  BY <1>10 DEF onboard_ns
<1>11. CASE create_vnf_package
  BY <1>11 DEF create_vnf_package, CreatePackage
<1>12. CASE create_ns_package
  BY <1>12 DEF create_ns_package, CreatePackage
<1>13. CASE upload_vnf_package
  BY <1>13 DEF upload_vnf_package, Put
<1>14. CASE upload_ns_package
  BY <1>14 DEF upload_ns_package, Put
<1>15. CASE DbFails
  BY <1>15 DEF DbFails
<1>16. CASE InsertOptimization
  BY <1>16 DEF InsertOptimization, Insert
<1>17. CASE InsertMicroservice
  BY <1>17 DEF InsertMicroservice, Insert
<1>18. CASE Commit
  BY <1>18 DEF Commit
<1>19. CASE PolicyCreate
  BY <1>19 DEF PolicyCreate, Unreliable
<1>20. CASE PolicyPush
  BY <1>20 DEF PolicyPush, Unreliable
<1>21. CASE ListdirFails
  BY <1>21 DEF ListdirFails
<1>22. CASE create_ns
  <2> DEFINE e == [csar |-> nsPkg, run |-> run, vnfs |-> config.vnfs,
                   sound |-> ~fault, by |-> 0]
             n == Len(instances) + 1
  <2>1. /\ run' = run /\ config' = config /\ pc = "create_ns"
        /\ instances' = instances \/ (Accepted /\ instances' = Append(instances, e))
        /\ \/ pc' = "error"
           \/ pc' = "instantiate_ns" /\ nsId' = ErrorWord
           \/ /\ pc' = "instantiate_ns" /\ nsId' = n
              /\ instances' = Append(instances, e)
    <3>1. ErrorWord # n
      BY Typed DEF CatalogType, ErrorWord
    <3> QED
      BY <1>22, <3>1 DEF create_ns, CreateService, NewInstance
  <2>3. CASE Accepted /\ instances' = Append(instances, e)
    <3>0. e \in InstanceType /\ config.model # "sdc"
      BY <2>1, <2>3, NewEntry DEF Accepted, BranchInv
    <3>1. /\ Len(instances) \in Nat /\ Len(instances') = n /\ instances'[n] = e
          /\ \A i \in 1..Len(instances) : instances'[i] = instances[i]
      BY <2>3, <3>0, Typed, Appended DEF CatalogType
    <3>2. e.run = run /\ e.by = 0 /\ run \in Nat
      BY Typed DEF ControlType
    <3>3. \A i \in 1..n : i \in 1..Len(instances) \/ i = n
      BY <3>1
    <3>4. \A i \in 1..Len(instances) : instances[i].run # run
      BY <2>1
    <3>5. n \in 1..n
      BY <3>1
    <3>6. Made(run)' = {n}
      BY <2>1, <3>1, <3>2, <3>3, <3>4, <3>5
    <3>7. \A i \in 1..Len(instances') :
            instances'[i].run <= run' /\ instances'[i].by \in {0, instances'[i].run}
      BY <2>1, <3>1, <3>2, <3>3
    <3> QED
      BY <2>1, <3>0, <3>1, <3>2, <3>5, <3>6, <3>7
  <2>4. CASE instances' = instances
    <3>1. instances # Append(instances, e)
      BY Typed DEF CatalogType
    <3> QED
      BY <2>1, <2>4, <3>1
  <2> QED
    BY <2>1, <2>3, <2>4
<1>23. CASE instantiate_ns
  <2> DEFINE e == [instances[nsId] EXCEPT !.by = run]
  <2>1. /\ run' = run /\ config' = config
        /\ pc = "instantiate_ns" /\ pc' = "done"
        /\ \/ instances' = instances
           \/ nsId # ErrorWord /\ instances' = [instances EXCEPT ![nsId] = e]
    BY <1>23 DEF instantiate_ns, Instantiate
  <2>2. CASE nsId # ErrorWord /\ instances' = [instances EXCEPT ![nsId] = e]
    <3>1. /\ nsId \in 1..Len(instances) /\ instances[nsId].run = run
          /\ Made(run) = {nsId} /\ config.model # "sdc"
      BY <2>1, <2>2
    <3>2. instances[nsId] \in InstanceType
      BY <3>1, Typed DEF CatalogType
    <3>3. e \in InstanceType /\ e.run = run /\ e.by = run
      BY <2>1, <3>1, <3>2, Typed DEF InstanceType, ControlType
    <3>4. /\ Len(instances') = Len(instances) /\ instances'[nsId] = e
          /\ \A i \in 1..Len(instances) : i # nsId => instances'[i] = instances[i]
      BY <2>2, <3>1, <3>3, Typed, Edited DEF CatalogType
    <3>5. run <= run
      BY Typed DEF ControlType
    <3> QED
      BY <2>1, <3>1, <3>3, <3>4, <3>5
  <2>3. CASE instances' = instances
    BY <2>1, <2>3
  <2> QED
    BY <2>1, <2>2, <2>3
<1>24. CASE Start
  <2>1. instances' = instances /\ run' = run + 1 /\ pc' = "complex"
    BY <1>24 DEF Start
  <2>2. run \in Nat /\ \A i \in 1..Len(instances) : instances[i].run \in Nat
    BY RunsAreNumbers
  <2>3. \A i \in 1..Len(instances) :
          instances[i].run <= run + 1 /\ instances[i].run # run + 1
    BY <2>2
  <2> QED
    BY <2>1, <2>3
<1>25. CASE Kill
  BY <1>25 DEF Kill
<1>26. CASE UNCHANGED vars
  BY <1>26
<1> QED
  BY <1>1, <1>2, <1>3, <1>4, <1>5, <1>6, <1>7, <1>8, <1>9, <1>10, <1>11,
     <1>12, <1>13, <1>14, <1>15, <1>16, <1>17, <1>18, <1>19, <1>20, <1>21,
     <1>22, <1>23, <1>24, <1>25, <1>26
     DEF Next, Step, Inventory, Package, Policy

(* What a step does to the catalog: packages are appended, empty except for *)
(* the answer of onboard_ns, or one of this run gets its content.           *)
Add(e) ==
    /\ e \in PackageType /\ e.run = run /\ e.content \in {"empty", e.of}
    /\ packages' = Append(packages, e)

Fill(p, x) ==
    /\ IsPackage(p, x)
    /\ packages' = [packages EXCEPT ![p] = [packages[p] EXCEPT !.content = x]]

LEMMA CatalogSteps ==
    ASSUME IndInv, [Next]_vars
    PROVE  \/ packages' = packages
           \/ \E e \in PackageType : Add(e)
           \/ \E p \in 1..Len(packages), x \in In(Vnfs) \cup {"ns"} : Fill(p, x)
<1> USE DEF Goto, Same, NextItem, System, Outside, Skip, vars, vfc
<1>1. CASE create_complex
  BY <1>1 DEF create_complex
<1>2. CASE CloudCreate
  BY <1>2 DEF CloudCreate
<1>3. CASE ComplexAssociate
  BY <1>3 DEF ComplexAssociate
<1>4. CASE MulticloudRegister
  BY <1>4 DEF MulticloudRegister
<1>5. CASE create_service_type
  BY <1>5 DEF create_service_type
<1>6. CASE create_customer
  BY <1>6 DEF create_customer
<1>7. CASE add_customer_subscription
  BY <1>7 DEF add_customer_subscription, Subscribe
<1>8. CASE register_vnfm
  BY <1>8 DEF register_vnfm, Branch
<1>9. CASE onboard_vnf
  BY <1>9 DEF onboard_vnf
<1>10. CASE onboard_ns
  <2> DEFINE e == [of |-> "ns", run |-> run, content |-> "ns"]
  <2>1. e \in PackageType
    BY <1>10, Typed DEF onboard_ns, PackageType, Stopped
  <2>2. packages' = packages \/ Add(e)
    BY <1>10, <2>1 DEF onboard_ns, Add
  <2> QED
    BY <2>1, <2>2
<1>11. CASE create_vnf_package
  <2> DEFINE e == [of |-> Head(todo), run |-> run, content |-> "empty"]
  <2>1. CASE todo # <<>>
    <3>1. Head(todo) \in In(Vnfs)
      BY <1>11, <2>1, Typed, HeadTail DEF create_vnf_package
    <3>2. e \in PackageType
      BY <1>11, <2>1, <3>1, Typed DEF create_vnf_package, PackageType, Stopped
    <3>3. packages' = packages \/ Add(e)
      BY <1>11, <2>1, <3>2 DEF create_vnf_package, CreatePackage, Add
    <3> QED
      BY <3>2, <3>3
  <2>2. CASE todo = <<>>
    BY <1>11, <2>2 DEF create_vnf_package
  <2> QED
    BY <2>1, <2>2
<1>12. CASE create_ns_package
  <2> DEFINE e == [of |-> "ns", run |-> run, content |-> "empty"]
  <2>1. e \in PackageType
    BY <1>12, Typed DEF create_ns_package, PackageType, Stopped
  <2>2. packages' = packages \/ Add(e)
    BY <1>12, <2>1 DEF create_ns_package, CreatePackage, Add
  <2> QED
    BY <2>1, <2>2
<1>13. CASE upload_vnf_package
  <2>1. CASE todo # <<>>
    <3> DEFINE x == Head(todo)
               p == vnfPkg[x]
    <3>1. x \in In(Vnfs) /\ (p # ErrorWord => IsPackage(p, x))
      <4>1. x \in In(todo) /\ x \in In(Vnfs)
        BY <1>13, <2>1, Typed, HeadTail DEF upload_vnf_package
      <4>2. In(todo) \subseteq In(config.vnfs) /\ PackageInv
        BY <1>13 DEF upload_vnf_package, IndInv, LoopInv
      <4> QED
        BY <1>13, <4>1, <4>2 DEF upload_vnf_package, PackageInv
    <3>2. packages' = packages \/ (p # ErrorWord /\ Fill(p, x))
      BY <1>13, <2>1, <3>1 DEF upload_vnf_package, Put, Fill
    <3> QED
      BY <3>1, <3>2 DEF IsPackage
  <2>2. CASE todo = <<>>
    BY <1>13, <2>2 DEF upload_vnf_package
  <2> QED
    BY <2>1, <2>2
<1>14. CASE upload_ns_package
  <2>1. nsPkg # ErrorWord => IsPackage(nsPkg, "ns")
    BY <1>14 DEF upload_ns_package, IndInv, PackageInv, Accepted
  <2>2. packages' = packages \/ (nsPkg # ErrorWord /\ Fill(nsPkg, "ns"))
    BY <1>14, <2>1 DEF upload_ns_package, Put, Fill
  <2> QED
    BY <2>1, <2>2 DEF IsPackage
<1>15. CASE DbFails
  BY <1>15 DEF DbFails
<1>16. CASE InsertOptimization
  BY <1>16 DEF InsertOptimization, Insert
<1>17. CASE InsertMicroservice
  BY <1>17 DEF InsertMicroservice, Insert
<1>18. CASE Commit
  BY <1>18 DEF Commit
<1>19. CASE PolicyCreate
  BY <1>19 DEF PolicyCreate, Unreliable
<1>20. CASE PolicyPush
  BY <1>20 DEF PolicyPush, Unreliable
<1>21. CASE ListdirFails
  BY <1>21 DEF ListdirFails
<1>22. CASE create_ns
  BY <1>22 DEF create_ns, CreateService, NewInstance
<1>23. CASE instantiate_ns
  BY <1>23 DEF instantiate_ns, Instantiate
<1>24. CASE Start
  BY <1>24 DEF Start
<1>25. CASE Kill
  BY <1>25 DEF Kill
<1>26. CASE UNCHANGED vars
  BY <1>26
<1> QED
  BY <1>1, <1>2, <1>3, <1>4, <1>5, <1>6, <1>7, <1>8, <1>9, <1>10, <1>11,
     <1>12, <1>13, <1>14, <1>15, <1>16, <1>17, <1>18, <1>19, <1>20, <1>21,
     <1>22, <1>23, <1>24, <1>25, <1>26
     DEF Next, Step, Inventory, Package, Policy

(* Packages stay what they are, and hold what they are for.                *)
LEMMA PackagesKept ==
    ASSUME IndInv, [Next]_vars
    PROVE  /\ \A id \in 1..Len(packages) :
                /\ id \in 1..Len(packages')
                /\ packages'[id].of = packages[id].of
                /\ packages'[id].run = packages[id].run
                /\ packages[id].content = packages[id].of
                     => packages'[id].content = packages'[id].of
           /\ ContentMatches'
<1>1. packages \in Seq(PackageType) /\ Len(packages) \in Nat /\ run \in Nat
  BY Typed DEF CatalogType, ControlType
<1>2. \A i \in 1..Len(packages) : packages[i].content \in {"empty", packages[i].of}
  BY DEF IndInv, PackageInv, ContentMatches, In
<1>3. CASE packages' = packages
  BY <1>1, <1>2, <1>3 DEF ContentMatches, In
<1>4. CASE \E e \in PackageType : Add(e)
  <2>1. PICK e \in PackageType : Add(e)
    BY <1>4
  <2>2. /\ Len(packages') = Len(packages) + 1 /\ packages'[Len(packages) + 1] = e
        /\ \A i \in 1..Len(packages) : packages'[i] = packages[i]
    BY <1>1, <2>1, Appended DEF Add
  <2>3. \A i \in 1..Len(packages') : packages'[i].content \in {"empty", packages'[i].of}
    <3> SUFFICES ASSUME NEW i \in 1..Len(packages')
                 PROVE  packages'[i].content \in {"empty", packages'[i].of}
      OBVIOUS
    <3>1. CASE i \in 1..Len(packages)
      BY <1>2, <2>2, <3>1
    <3>2. CASE i = Len(packages) + 1
      BY <2>1, <2>2, <3>2 DEF Add
    <3> QED
      BY <1>1, <2>2, <3>1, <3>2
  <2> QED
    BY <1>1, <2>2, <2>3 DEF ContentMatches, In
<1>5. CASE \E p \in 1..Len(packages), x \in In(Vnfs) \cup {"ns"} : Fill(p, x)
  <2>1. PICK p \in 1..Len(packages), x \in In(Vnfs) \cup {"ns"} : Fill(p, x)
    BY <1>5
  <2> DEFINE e == [packages[p] EXCEPT !.content = x]
  <2>2. packages[p] \in PackageType /\ packages[p].of = x
    BY <1>1, <2>1 DEF Fill, IsPackage
  <2>3. /\ e \in PackageType /\ e.of = x /\ e.content = x
        /\ e.run = packages[p].run
    BY <2>2 DEF PackageType
  <2>4. /\ Len(packages') = Len(packages) /\ packages'[p] = e
        /\ \A i \in 1..Len(packages) : i # p => packages'[i] = packages[i]
    BY <1>1, <2>1, <2>3, Edited DEF Fill
  <2>5. \A i \in 1..Len(packages') : packages'[i].content \in {"empty", packages'[i].of}
    BY <1>2, <2>3, <2>4
  <2> QED
    BY <2>2, <2>3, <2>4, <2>5 DEF ContentMatches, In
<1> QED
  BY <1>3, <1>4, <1>5, CatalogSteps

LEMMA StillPackage ==
    ASSUME IndInv, [Next]_vars, run' = run, NEW id, NEW x, IsPackage(id, x)
    PROVE  /\ id \in 1..Len(packages') /\ packages'[id].of = x
           /\ packages'[id].run = run'
           /\ Filled(id, x) => packages'[id].content = x
  BY PackagesKept DEF IsPackage, Filled

(* What a step does to the ids.                                            *)
LEMMA IdSteps == ASSUME IndInv, [Next]_vars 
    PROVE
        \/ UNCHANGED <<nsPkg, vnfPkg, run>>
        \/ nsPkg' = ErrorWord /\ UNCHANGED <<vnfPkg, run>>
        \/ \E x \in In(Vnfs) : /\ vnfPkg' = [vnfPkg EXCEPT ![x] = ErrorWord]
                              /\ UNCHANGED <<nsPkg, run>>
        \/ nsPkg' = None /\ vnfPkg' = [v \in In(Vnfs) |-> None]
        \/ /\ nsPkg' = Len(packages) + 1 /\ UNCHANGED <<vnfPkg, run>>
           /\ packages' = Append(packages, [of |-> "ns", run |-> run,
                                            content |-> "empty"])
        \/ \E x \in In(Vnfs) :
             /\ vnfPkg' = [vnfPkg EXCEPT ![x] = Len(packages) + 1]
             /\ UNCHANGED <<nsPkg, run>> /\ run \in 1..MaxRuns
             /\ packages' = Append(packages, [of |-> x, run |-> run,
                                              content |-> "empty"])
<1> USE DEF Goto, Same, NextItem, System, Raise, Outside, Skip, vars,
        script, history
<1>1. CASE create_complex
  BY <1>1 DEF create_complex
<1>2. CASE CloudCreate
  BY <1>2 DEF CloudCreate
<1>3. CASE ComplexAssociate
  BY <1>3 DEF ComplexAssociate
<1>4. CASE MulticloudRegister
  BY <1>4 DEF MulticloudRegister
<1>5. CASE create_service_type
  BY <1>5 DEF create_service_type
<1>6. CASE create_customer
  BY <1>6 DEF create_customer
<1>7. CASE add_customer_subscription
  BY <1>7 DEF add_customer_subscription, Subscribe
<1>8. CASE register_vnfm
  BY <1>8 DEF register_vnfm, Branch
<1>9. CASE onboard_vnf
  BY <1>9 DEF onboard_vnf
<1>10. CASE onboard_ns
  BY <1>10 DEF onboard_ns
<1>11. CASE create_vnf_package
  <2>0. run \in 1..MaxRuns
    BY <1>11, Typed DEF create_vnf_package, Stopped
  <2>1. CASE todo # <<>>
    <3>1. Head(todo) \in In(Vnfs)
      BY <1>11, <2>1, Typed, HeadTail DEF create_vnf_package
    <3> QED
      BY <1>11, <2>0, <2>1, <3>1 DEF create_vnf_package, CreatePackage
  <2>2. CASE todo = <<>>
    BY <1>11, <2>2 DEF create_vnf_package
  <2> QED
    BY <2>1, <2>2
<1>12. CASE create_ns_package
  BY <1>12 DEF create_ns_package, CreatePackage
<1>13. CASE upload_vnf_package
  BY <1>13 DEF upload_vnf_package, Put
<1>14. CASE upload_ns_package
  BY <1>14 DEF upload_ns_package, Put
<1>15. CASE DbFails
  BY <1>15 DEF DbFails
<1>16. CASE InsertOptimization
  BY <1>16 DEF InsertOptimization, Insert
<1>17. CASE InsertMicroservice
  BY <1>17 DEF InsertMicroservice, Insert
<1>18. CASE Commit
  BY <1>18 DEF Commit
<1>19. CASE PolicyCreate
  BY <1>19 DEF PolicyCreate, Unreliable
<1>20. CASE PolicyPush
  BY <1>20 DEF PolicyPush, Unreliable
<1>21. CASE ListdirFails
  BY <1>21 DEF ListdirFails
<1>22. CASE create_ns
  BY <1>22 DEF create_ns, CreateService, NewInstance
<1>23. CASE instantiate_ns
  BY <1>23 DEF instantiate_ns, Instantiate
<1>24. CASE Start
  BY <1>24 DEF Start
<1>25. CASE Kill
  BY <1>25 DEF Kill
<1>26. CASE UNCHANGED vars
  BY <1>26
<1> QED
  BY <1>1, <1>2, <1>3, <1>4, <1>5, <1>6, <1>7, <1>8, <1>9, <1>10, <1>11,
     <1>12, <1>13, <1>14, <1>15, <1>16, <1>17, <1>18, <1>19, <1>20, <1>21,
     <1>22, <1>23, <1>24, <1>25, <1>26
     DEF Next, Step, Inventory, Package, Policy

LEMMA IdStep ==
    ASSUME IndInv, [Next]_vars
    PROVE  /\ (Accepted => IsPackage(nsPkg, "ns"))'
           /\ \A v \in In(Vnfs) :
                (vnfPkg[v] \notin {None, ErrorWord} => IsPackage(vnfPkg[v], v))'
<1> USE DEF Accepted
<1> DEFINE n == Len(packages) + 1
<1>0. /\ packages \in Seq(PackageType) /\ n \in Nat /\ n \in 1..n
      /\ vnfPkg \in [In(Vnfs) -> Nat \cup {None}]
      /\ Accepted => IsPackage(nsPkg, "ns")
      /\ \A v \in In(Vnfs) :
           vnfPkg[v] \notin {None, ErrorWord} => IsPackage(vnfPkg[v], v)
  <2>1. CatalogType
    BY Typed
  <2>2. Len(packages) \in Nat
    BY <2>1 DEF CatalogType
  <2> QED
    BY <2>1, <2>2 DEF CatalogType, IndInv, PackageInv
<1>1. CASE UNCHANGED <<nsPkg, vnfPkg, run>>
  BY <1>0, <1>1, StillPackage DEF IsPackage
<1>2. CASE nsPkg' = None /\ vnfPkg' = [v \in In(Vnfs) |-> None]
  BY <1>2
<1>3. ASSUME NEW x \in In(Vnfs) \cup {"ns"}, run' = run,
             packages' = Append(packages, [of |-> x, run |-> run,
                                           content |-> "empty"])
      PROVE  n \in 1..Len(packages') /\ packages'[n].of = x /\ packages'[n].run = run
  BY <1>0, <1>3
<1>4. CASE /\ nsPkg' = n /\ UNCHANGED <<vnfPkg, run>>
           /\ packages' = Append(packages, [of |-> "ns", run |-> run,
                                            content |-> "empty"])
  <2>1. IsPackage(nsPkg, "ns")'
    BY <1>3, <1>4 DEF IsPackage
  <2> QED
    BY <1>0, <1>4, <2>1, StillPackage DEF IsPackage
<1>5. CASE \E x \in In(Vnfs) :
             /\ vnfPkg' = [vnfPkg EXCEPT ![x] = n]
             /\ UNCHANGED <<nsPkg, run>> /\ run \in 1..MaxRuns
             /\ packages' = Append(packages, [of |-> x, run |-> run,
                                              content |-> "empty"])
  <2>1. PICK x \in In(Vnfs) :
             /\ vnfPkg' = [vnfPkg EXCEPT ![x] = n]
             /\ UNCHANGED <<nsPkg, run>>
             /\ packages' = Append(packages, [of |-> x, run |-> run,
                                              content |-> "empty"])
    BY <1>5
  <2>2. IsPackage(vnfPkg[x], x)'
    BY <1>0, <1>3, <2>1 DEF IsPackage
  <2>3. \A v \in In(Vnfs) : v # x => vnfPkg'[v] = vnfPkg[v]
    BY <1>0, <2>1
  <2> QED
    BY <1>0, <2>1, <2>2, <2>3, StillPackage DEF IsPackage
<1>6. CASE nsPkg' = ErrorWord /\ UNCHANGED <<vnfPkg, run>>
  BY <1>0, <1>6, StillPackage DEF IsPackage
<1>7. CASE \E x \in In(Vnfs) : /\ vnfPkg' = [vnfPkg EXCEPT ![x] = ErrorWord]
                              /\ UNCHANGED <<nsPkg, run>>
  <2>1. \A v \in In(Vnfs) : vnfPkg'[v] \in {ErrorWord, vnfPkg[v]}
    BY <1>0, <1>7
  <2> QED
    BY <1>0, <1>7, <2>1, StillPackage DEF IsPackage
<1> QED
  BY <1>1, <1>2, <1>4, <1>5, <1>6, <1>7, IdSteps

(* Which ids the script must have by now.                                  *)
Ids ==
    /\ pc \in {"upload_vnf", "upload_ns"} => nsPkg # None
    /\ pc = "create_vnf"
         => \A v \in In(config.vnfs) : vnfPkg[v] # None \/ v \in In(todo)
    /\ pc \in {"create_ns_package", "upload_vnf", "upload_ns"}
         => \A v \in In(config.vnfs) : vnfPkg[v] # None

LEMMA IdFacts ==
    ASSUME IndInv
    PROVE  /\ Ids /\ Len(packages) + 1 \in Nat /\ Len(packages) + 1 # None
           /\ ErrorWord # None /\ Len(packages) + 1 # ErrorWord
           /\ config.vnfs \in {<<>>, Vnfs}
           /\ vnfPkg \in [In(Vnfs) -> Nat \cup {None}]
           /\ pc \in {"create_vnf", "upload_vnf"}
                => todo \in Seq(In(Vnfs)) /\ (todo = <<>> <=> config.vnfs = <<>>)
           /\ In(config.vnfs) \subseteq In(Vnfs)
           /\ config.vnfs = <<>> => In(config.vnfs) = {}
<1>1. CatalogType /\ ControlType
  BY Typed
<1>2. Len(packages) \in Nat /\ config.vnfs \in {<<>>, Vnfs}
  BY <1>1 DEF CatalogType, ControlType
<1>3. Ids /\ (pc \in {"create_vnf", "upload_vnf"}
                => todo \in Seq(In(Vnfs)) /\ (todo = <<>> <=> config.vnfs = <<>>))
  BY DEF IndInv, PackageInv, Ids, LoopInv
<1> QED
  BY <1>1, <1>2, <1>3, NoneAssumption, Configured DEF CatalogType, ErrorWord

(* The script has the ids its next command needs.                          *)
LEMMA IdsStep == ASSUME IndInv, [Next]_vars PROVE Ids'
<1> USE IdFacts
    DEF Ids, Goto, Same, NextItem, System, Raise, Fault, NoFault, Outside,
        Skip, vars, script, vfc, sql, history, Stopped
<1>1. CASE create_complex
  BY <1>1 DEF create_complex
<1>2. CASE CloudCreate
  BY <1>2 DEF CloudCreate
<1>3. CASE ComplexAssociate
  BY <1>3 DEF ComplexAssociate
<1>4. CASE MulticloudRegister
  BY <1>4 DEF MulticloudRegister
<1>5. CASE create_service_type
  BY <1>5 DEF create_service_type
<1>6. CASE create_customer
  BY <1>6 DEF create_customer
<1>7. CASE add_customer_subscription
  BY <1>7 DEF add_customer_subscription, Subscribe
<1>8. CASE register_vnfm
  BY <1>8 DEF register_vnfm, Branch
<1>9. CASE onboard_vnf
  BY <1>9 DEF onboard_vnf
<1>10. CASE onboard_ns
  BY <1>10 DEF onboard_ns
<1>11. CASE create_vnf_package
  <2>1. CASE todo # <<>>
    <3>1. /\ Head(todo) \in In(Vnfs)
          /\ \A v \in In(todo) : v = Head(todo) \/ v \in In(Tail(todo))
          /\ ~(Len(todo) > 1) => In(todo) = {Head(todo)}
      BY <1>11, <2>1, HeadTail DEF create_vnf_package
    <3>2. CASE \E id \in {Len(packages) + 1, ErrorWord} :
                 vnfPkg' = [vnfPkg EXCEPT ![Head(todo)] = id]
      <4>1. \A v \in In(config.vnfs) : vnfPkg'[v] # None \/ v \in In(Tail(todo))
        BY <1>11, <3>1, <3>2 DEF create_vnf_package
      <4>2. ~(Len(todo) > 1) => \A v \in In(config.vnfs) : vnfPkg'[v] # None
        BY <1>11, <3>1, <3>2 DEF create_vnf_package
      <4> QED
        BY <1>11, <2>1, <4>1, <4>2 DEF create_vnf_package, CreatePackage
    <3>3. CASE pc' = "error"
      BY <3>3
    <3> QED
      BY <1>11, <2>1, <3>2, <3>3 DEF create_vnf_package, CreatePackage
  <2>2. CASE todo = <<>>
    BY <1>11, <2>2 DEF create_vnf_package
  <2> QED
    BY <2>1, <2>2
<1>12. CASE create_ns_package
  BY <1>12 DEF create_ns_package, CreatePackage
<1>13. CASE upload_vnf_package
  BY <1>13 DEF upload_vnf_package, Put
<1>14. CASE upload_ns_package
  BY <1>14 DEF upload_ns_package, Put
<1>15. CASE DbFails
  BY <1>15 DEF DbFails
<1>16. CASE InsertOptimization
  BY <1>16 DEF InsertOptimization, Insert
<1>17. CASE InsertMicroservice
  BY <1>17 DEF InsertMicroservice, Insert
<1>18. CASE Commit
  BY <1>18 DEF Commit
<1>19. CASE PolicyCreate
  BY <1>19 DEF PolicyCreate, Unreliable
<1>20. CASE PolicyPush
  BY <1>20 DEF PolicyPush, Unreliable
<1>21. CASE ListdirFails
  BY <1>21 DEF ListdirFails
<1>22. CASE create_ns
  BY <1>22 DEF create_ns, CreateService, NewInstance
<1>23. CASE instantiate_ns
  BY <1>23 DEF instantiate_ns, Instantiate
<1>24. CASE Start
  BY <1>24 DEF Start
<1>25. CASE Kill
  BY <1>25 DEF Kill
<1>26. CASE UNCHANGED vars
  BY <1>26
<1> QED
  BY <1>1, <1>2, <1>3, <1>4, <1>5, <1>6, <1>7, <1>8, <1>9, <1>10, <1>11,
     <1>12, <1>13, <1>14, <1>15, <1>16, <1>17, <1>18, <1>19, <1>20, <1>21,
     <1>22, <1>23, <1>24, <1>25, <1>26
     DEF Next, Step, Inventory, Package, Policy

(* A word of an error is taken for an id only once something has failed.   *)
Words == ~fault => nsPkg # ErrorWord /\ \A v \in In(Vnfs) : vnfPkg[v] # ErrorWord

LEMMA WordsHeld == ASSUME IndInv PROVE Words
  BY DEF IndInv, PackageInv, Words

LEMMA WordsStep == ASSUME IndInv, [Next]_vars PROVE Words'
<1> USE IdFacts
    DEF Words, System, Outside, Skip, Raise, Fault, NoFault, vars, script, history
<1>1. CASE create_complex
  BY <1>1, WordsHeld DEF create_complex
<1>2. CASE CloudCreate
  BY <1>2, WordsHeld DEF CloudCreate
<1>3. CASE ComplexAssociate
  BY <1>3, WordsHeld DEF ComplexAssociate
<1>4. CASE MulticloudRegister
  BY <1>4, WordsHeld DEF MulticloudRegister
<1>5. CASE create_service_type
  BY <1>5, WordsHeld DEF create_service_type
<1>6. CASE create_customer
  BY <1>6, WordsHeld DEF create_customer
<1>7. CASE add_customer_subscription
  BY <1>7, WordsHeld DEF add_customer_subscription, Subscribe
<1>8. CASE register_vnfm
  BY <1>8, WordsHeld DEF register_vnfm, Branch
<1>9. CASE onboard_vnf
  BY <1>9, WordsHeld DEF onboard_vnf
<1>10. CASE onboard_ns
  BY <1>10, WordsHeld DEF onboard_ns
<1>11. CASE create_vnf_package
  <2>1. CASE fault' \/ UNCHANGED <<vnfPkg, nsPkg, fault>>
    BY <2>1, WordsHeld
  <2>2. CASE /\ vnfPkg' = [vnfPkg EXCEPT ![Head(todo)] = Len(packages) + 1]
             /\ UNCHANGED <<nsPkg, fault>>
    BY <2>2, WordsHeld
  <2> QED
    BY <1>11, <2>1, <2>2 DEF create_vnf_package, CreatePackage
<1>12. CASE create_ns_package
  BY <1>12, WordsHeld DEF create_ns_package, CreatePackage
<1>13. CASE upload_vnf_package
  BY <1>13, WordsHeld DEF upload_vnf_package, Put
<1>14. CASE upload_ns_package
  BY <1>14, WordsHeld DEF upload_ns_package, Put
<1>15. CASE DbFails
  BY <1>15, WordsHeld DEF DbFails
<1>16. CASE InsertOptimization
  BY <1>16, WordsHeld DEF InsertOptimization, Insert
<1>17. CASE InsertMicroservice
  BY <1>17, WordsHeld DEF InsertMicroservice, Insert
<1>18. CASE Commit
  BY <1>18, WordsHeld DEF Commit
<1>19. CASE PolicyCreate
  BY <1>19, WordsHeld DEF PolicyCreate, Unreliable
<1>20. CASE PolicyPush
  BY <1>20, WordsHeld DEF PolicyPush, Unreliable
<1>21. CASE ListdirFails
  BY <1>21, WordsHeld DEF ListdirFails
<1>22. CASE create_ns
  BY <1>22, WordsHeld DEF create_ns, CreateService
<1>23. CASE instantiate_ns
  BY <1>23, WordsHeld DEF instantiate_ns, Instantiate
<1>24. CASE Start
  BY <1>24, WordsHeld DEF Start
<1>25. CASE Kill
  BY <1>25, WordsHeld DEF Kill
<1>26. CASE UNCHANGED vars
  BY <1>26, WordsHeld
<1> QED
  BY <1>1, <1>2, <1>3, <1>4, <1>5, <1>6, <1>7, <1>8, <1>9, <1>10, <1>11,
     <1>12, <1>13, <1>14, <1>15, <1>16, <1>17, <1>18, <1>19, <1>20, <1>21,
     <1>22, <1>23, <1>24, <1>25, <1>26
     DEF Next, Step, Inventory, Package, Policy
LEMMA PackageStep == ASSUME IndInv, [Next]_vars PROVE PackageInv'
  BY PackagesKept, IdStep, IdsStep, WordsStep DEF PackageInv, Ids, Words

(* What ContentStep uses of the invariant.                                 *)
LEMMA ContentHeld ==
    ASSUME IndInv
    PROVE  /\ ContentInv /\ Words
           /\ pc \in Setup \cup Sdc => nsPkg = None
  BY DEF IndInv, BranchInv, PackageInv, Words, Setup, Sdc

LEMMA IdsHeld ==
    ASSUME IndInv
    PROVE  /\ Accepted => IsPackage(nsPkg, "ns")
           /\ \A v \in In(Vnfs) :
                vnfPkg[v] \notin {None, ErrorWord} => IsPackage(vnfPkg[v], v)
  BY DEF IndInv, PackageInv

LEMMA LoopVnfs ==
    ASSUME IndInv, pc = "upload_vnf" PROVE In(todo) \subseteq In(config.vnfs)
  BY DEF IndInv, LoopInv

LEMMA CatalogHeld ==
    ASSUME IndInv
    PROVE  /\ packages \in Seq(PackageType)
           /\ \A p \in 1..Len(packages) : packages[p] \in PackageType
           /\ \A p \in 1..Len(packages) : \A x :
                [packages EXCEPT ![p].content = x][p].content = x
<1>1. packages \in Seq(PackageType)
  BY Typed DEF CatalogType
<1>2. \A p \in 1..Len(packages) : packages[p] \in PackageType
  BY <1>1
<1> QED
  BY <1>1, <1>2 DEF PackageType

(* As long as nothing fails, uploads fill the packages one after another.  *)
LEMMA ContentStep == ASSUME IndInv, [Next]_vars PROVE ContentInv'
<1> USE ContentHeld
    DEF ContentInv, Filled, Goto, Same, NextItem, System, Raise, Fault,
        NoFault, Outside, Skip, vars, script, vfc, sql, history, Stopped,
        Setup, Sdc, Local, Recording, Policing
<1>1. CASE create_complex
  BY <1>1 DEF create_complex
<1>2. CASE CloudCreate
  BY <1>2 DEF CloudCreate
<1>3. CASE ComplexAssociate
  BY <1>3 DEF ComplexAssociate
<1>4. CASE MulticloudRegister
  BY <1>4 DEF MulticloudRegister
<1>5. CASE create_service_type
  BY <1>5 DEF create_service_type
<1>6. CASE create_customer
  BY <1>6 DEF create_customer
<1>7. CASE add_customer_subscription
  BY <1>7 DEF add_customer_subscription, Subscribe
<1>8. CASE register_vnfm
  BY <1>8 DEF register_vnfm, Branch
<1>9. CASE onboard_vnf
  BY <1>9 DEF onboard_vnf
<1>10. CASE onboard_ns
  <2>1. pc' = "hpa_sql" /\ nsPkg' = None
    BY <1>10, ContentHeld DEF onboard_ns
  <2> QED
    BY <2>1
<1>11. CASE create_vnf_package
  <2>1. pc' \in {"create_vnf", "create_ns_package", "error"}
    BY <1>11 DEF create_vnf_package, CreatePackage
  <2> QED
    BY <2>1
<1>12. CASE create_ns_package
  <2>1. (pc' = "upload_vnf" /\ todo' = config'.vnfs) \/ pc' = "error"
    BY <1>12 DEF create_ns_package, CreatePackage
  <2> QED
    BY <2>1
<1>13. CASE upload_vnf_package
  <2>1. CASE todo # <<>> /\ ~fault'
    <3> DEFINE x == Head(todo)
    <3>1. /\ x \in In(config.vnfs)
          /\ \A v \in In(todo) : v = x \/ v \in In(Tail(todo))
          /\ ~(Len(todo) > 1) => In(todo) = {x}
      BY <1>13, <2>1, IdFacts, LoopVnfs, HeadTail DEF upload_vnf_package
    <3>0. \A v \in In(config.vnfs) : vnfPkg[v] # ErrorWord
      BY <1>13, <2>1, IdFacts, ContentHeld DEF Words, upload_vnf_package, Put
    <3>2. /\ packages' = [packages EXCEPT ![vnfPkg[x]].content = x]
          /\ NextItem("upload_vnf", "upload_ns", <<>>)
          /\ UNCHANGED <<config, nsPkg, vnfPkg, run, fault>>
      BY <1>13, <2>1, <3>0, <3>1 DEF upload_vnf_package, Put
    <3>3. vnfPkg[x] \in 1..Len(packages)
      BY <1>13, <3>0, <3>1, IdFacts, IdsHeld DEF IsPackage, Ids, upload_vnf_package
    <3>4. packages'[vnfPkg[x]].content = x
      BY <3>2, <3>3, CatalogHeld
    <3>5. \A v \in In(config.vnfs) :
            Filled(vnfPkg[v], v) => packages'[vnfPkg[v]].content = v
      BY <1>13, <3>0, <3>2, IdFacts, IdsHeld, StillPackage DEF Ids, upload_vnf_package
    <3>6. \A v \in In(config.vnfs) : v \in In(todo) \/ Filled(vnfPkg[v], v)
      BY <1>13, <2>1, <3>2, ContentHeld DEF upload_vnf_package
    <3>7. \A v \in In(config.vnfs) :
            v \in In(Tail(todo)) \/ packages'[vnfPkg[v]].content = v
      BY <3>1, <3>4, <3>5, <3>6
    <3>8. ~(Len(todo) > 1)
            => \A v \in In(config.vnfs) : packages'[vnfPkg[v]].content = v
      BY <3>1, <3>4, <3>5, <3>6
    <3> QED
      BY <3>2, <3>7, <3>8 DEF Filled
  <2>2. CASE pc' = "error" \/ fault'
    BY <2>2
  <2> QED
    BY <1>13, <2>1, <2>2 DEF upload_vnf_package
<1>14. CASE upload_ns_package
  <2>1. CASE ~fault'
    <3>0. nsPkg # ErrorWord /\ \A v \in In(Vnfs) : vnfPkg[v] # ErrorWord
      BY <1>14, <2>1, ContentHeld DEF Words, upload_ns_package, Put
    <3>1. /\ packages' = [packages EXCEPT ![nsPkg].content = "ns"]
          /\ pc' = "hpa_sql"
          /\ UNCHANGED <<config, nsPkg, vnfPkg, run, fault>>
      BY <1>14, <2>1, <3>0 DEF upload_ns_package, Put
    <3>2. nsPkg \in 1..Len(packages)
      BY <1>14, <3>0, IdFacts, IdsHeld DEF IsPackage, Ids, Accepted, upload_ns_package
    <3>3. packages'[nsPkg].content = "ns"
      BY <3>1, <3>2, CatalogHeld
    <3>4. \A v \in In(config.vnfs) : vnfPkg[v] # None /\ Filled(vnfPkg[v], v)
      BY <1>14, <2>1, <3>1, IdFacts, ContentHeld DEF upload_ns_package, Ids
    <3>5. \A v \in In(config.vnfs) : packages'[vnfPkg[v]].content = v
      BY <1>14, <3>0, <3>1, <3>4, IdFacts, IdsHeld, StillPackage
    <3> QED
      BY <3>1, <3>3, <3>4, <3>5 DEF Filled
  <2>2. CASE fault'
    BY <2>2
  <2> QED
    BY <2>1, <2>2
<1>15. CASE DbFails
  BY <1>15 DEF DbFails
<1>16. CASE InsertOptimization
  BY <1>16 DEF InsertOptimization, Insert
<1>17. CASE InsertMicroservice
  BY <1>17 DEF InsertMicroservice, Insert
<1>18. CASE Commit
  BY <1>18 DEF Commit
<1>19. CASE PolicyCreate
  BY <1>19 DEF PolicyCreate, Unreliable
<1>20. CASE PolicyPush
  BY <1>20 DEF PolicyPush, Unreliable
<1>21. CASE ListdirFails
  BY <1>21 DEF ListdirFails
<1>22. CASE create_ns
  BY <1>22 DEF create_ns, CreateService, NewInstance
<1>23. CASE instantiate_ns
  BY <1>23 DEF instantiate_ns, Instantiate
<1>24. CASE Start
  BY <1>24 DEF Start
<1>25. CASE Kill
  BY <1>25 DEF Kill
<1>26. CASE UNCHANGED vars
  BY <1>26
<1> QED
  BY <1>1, <1>2, <1>3, <1>4, <1>5, <1>6, <1>7, <1>8, <1>9, <1>10, <1>11,
     <1>12, <1>13, <1>14, <1>15, <1>16, <1>17, <1>18, <1>19, <1>20, <1>21,
     <1>22, <1>23, <1>24, <1>25, <1>26
     DEF Next, Step, Inventory, Package, Policy

(* What ServicePackages asks of one service, given the catalog.            *)
Packed(catalog, i) ==
    /\ i.csar \in 1..Len(catalog)
    /\ catalog[i.csar].of = "ns" /\ catalog[i.csar].run = i.run
    /\ i.sound =>
         /\ catalog[i.csar].content = "ns"
         /\ \A v \in In(i.vnfs) : \E k \in 1..Len(catalog) :
              catalog[k].of = v /\ catalog[k].run = i.run /\ catalog[k].content = v

LEMMA Members ==
    ASSUME NEW s
    PROVE  /\ \A x \in In(s) : \E k \in 1..Len(s) : x = s[k]
           /\ \A k \in 1..Len(s) : s[k] \in In(s)
  BY DEF In

LEMMA ByIndex ==
    /\ ServicePackages <=> \A j \in 1..Len(instances) : Packed(packages, instances[j])
    /\ ServicePackages'
         <=> \A j \in 1..Len(instances') : Packed(packages', instances'[j])
<1> DEFINE Good(cat, ins) ==
             \A i \in In(ins) :
               /\ i.csar \in 1..Len(cat)
               /\ cat[i.csar].of = "ns" /\ cat[i.csar].run = i.run
               /\ i.sound =>
                    /\ cat[i.csar].content = "ns"
                    /\ \A v \in In(i.vnfs) : \E p \in In(cat) :
                         p.of = v /\ p.run = i.run /\ p.content = v
<1>1. ASSUME NEW cat, NEW ins
      PROVE  Good(cat, ins) <=> \A j \in 1..Len(ins) : Packed(cat, ins[j])
  <2>1. ASSUME Good(cat, ins), NEW j \in 1..Len(ins)
        PROVE  Packed(cat, ins[j])
    <3>1. ins[j] \in In(ins) /\ \A p \in In(cat) : \E k \in 1..Len(cat) : p = cat[k]
      BY Members
    <3> QED
      BY <2>1, <3>1, SMTT(60) DEF Packed
  <2>2. ASSUME \A j \in 1..Len(ins) : Packed(cat, ins[j])
        PROVE  Good(cat, ins)
    <3> SUFFICES ASSUME NEW i \in In(ins)
                 PROVE  /\ i.csar \in 1..Len(cat)
                        /\ cat[i.csar].of = "ns" /\ cat[i.csar].run = i.run
                        /\ i.sound =>
                             /\ cat[i.csar].content = "ns"
                             /\ \A v \in In(i.vnfs) : \E p \in In(cat) :
                                  p.of = v /\ p.run = i.run /\ p.content = v
      OBVIOUS
    <3>1. PICK j \in 1..Len(ins) : i = ins[j]
      BY Members
    <3>2. Packed(cat, i) /\ \A k \in 1..Len(cat) : cat[k] \in In(cat)
      BY <2>2, <3>1, Members
    <3> QED
      BY <3>2 DEF Packed
  <2> QED
    BY <2>1, <2>2
<1>2. ServicePackages <=> Good(packages, instances)
  BY DEF ServicePackages
<1>3. ServicePackages' <=> Good(packages', instances')
  BY DEF ServicePackages
<1> HIDE DEF Good
<1> QED
  BY <1>1, <1>2, <1>3

LEMMA StaysPacked ==
    ASSUME IndInv, [Next]_vars, NEW i, Packed(packages, i)
    PROVE  Packed(packages', i)
<1>1. /\ i.csar \in 1..Len(packages)
      /\ packages[i.csar].of = "ns" /\ packages[i.csar].run = i.run
  BY DEF Packed
<1>2. /\ i.csar \in 1..Len(packages')
      /\ packages'[i.csar].of = "ns" /\ packages'[i.csar].run = i.run
  BY <1>1, PackagesKept
<1>3. ASSUME i.sound
      PROVE  packages'[i.csar].content = "ns"
  BY <1>1, <1>2, <1>3, PackagesKept DEF Packed
<1>4. ASSUME i.sound, NEW v \in In(i.vnfs)
      PROVE  \E k \in 1..Len(packages') :
               packages'[k].of = v /\ packages'[k].run = i.run
               /\ packages'[k].content = v
  <2>1. PICK k \in 1..Len(packages) :
               packages[k].of = v /\ packages[k].run = i.run /\ packages[k].content = v
    BY <1>4 DEF Packed
  <2> QED
    BY <2>1, PackagesKept
<1> QED
  BY <1>2, <1>3, <1>4 DEF Packed

(* What a step does to the services.                                       *)
NewService == [csar |-> nsPkg, run |-> run, vnfs |-> config.vnfs,
               sound |-> ~fault, by |-> 0]

(* Services are appended or instantiated.                                  *)
LEMMA InstanceSteps == ASSUME IndInv, [Next]_vars 
    PROVE
        \/ UNCHANGED instances
        \/ /\ pc = "create_ns" /\ Accepted /\ UNCHANGED <<db, run>>
           /\ instances' = Append(instances, NewService)
        \/ /\ pc = "instantiate_ns" /\ nsId # ErrorWord /\ UNCHANGED <<packages, db, run>>
           /\ instances' = [instances EXCEPT ![nsId].by = run]
<1> USE DEF Goto, Same, NextItem, System, Raise, Outside, Skip, vars, vfc,
        sql
<1>1. CASE create_complex
  BY <1>1 DEF create_complex
<1>2. CASE CloudCreate
  BY <1>2 DEF CloudCreate
<1>3. CASE ComplexAssociate
  BY <1>3 DEF ComplexAssociate
<1>4. CASE MulticloudRegister
  BY <1>4 DEF MulticloudRegister
<1>5. CASE create_service_type
  BY <1>5 DEF create_service_type
<1>6. CASE create_customer
  BY <1>6 DEF create_customer
<1>7. CASE add_customer_subscription
  BY <1>7 DEF add_customer_subscription, Subscribe
<1>8. CASE register_vnfm
  BY <1>8 DEF register_vnfm, Branch
<1>9. CASE onboard_vnf
  BY <1>9 DEF onboard_vnf
<1>10. CASE onboard_ns
  BY <1>10 DEF onboard_ns
<1>11. CASE create_vnf_package
  BY <1>11 DEF create_vnf_package, CreatePackage
<1>12. CASE create_ns_package
  BY <1>12 DEF create_ns_package, CreatePackage
<1>13. CASE upload_vnf_package
  BY <1>13 DEF upload_vnf_package, Put
<1>14. CASE upload_ns_package
  BY <1>14 DEF upload_ns_package, Put
<1>15. CASE DbFails
  BY <1>15 DEF DbFails
<1>16. CASE InsertOptimization
  BY <1>16 DEF InsertOptimization, Insert
<1>17. CASE InsertMicroservice
  BY <1>17 DEF InsertMicroservice, Insert
<1>18. CASE Commit
  BY <1>18 DEF Commit
<1>19. CASE PolicyCreate
  BY <1>19 DEF PolicyCreate, Unreliable
<1>20. CASE PolicyPush
  BY <1>20 DEF PolicyPush, Unreliable
<1>21. CASE ListdirFails
  BY <1>21 DEF ListdirFails
<1>22. CASE create_ns
  BY <1>22 DEF create_ns, CreateService, NewInstance, NewService
<1>23. CASE instantiate_ns
  BY <1>23 DEF instantiate_ns, Instantiate
<1>24. CASE Start
  BY <1>24 DEF Start
<1>25. CASE Kill
  BY <1>25 DEF Kill
<1>26. CASE UNCHANGED vars
  BY <1>26
<1> QED
  BY <1>1, <1>2, <1>3, <1>4, <1>5, <1>6, <1>7, <1>8, <1>9, <1>10, <1>11,
     <1>12, <1>13, <1>14, <1>15, <1>16, <1>17, <1>18, <1>19, <1>20, <1>21,
     <1>22, <1>23, <1>24, <1>25, <1>26
     DEF Next, Step, Inventory, Package, Policy

LEMMA NewIsPacked == ASSUME IndInv, pc = "create_ns", Accepted PROVE Packed(packages, NewService)
<1> DEFINE i == NewService
<1>1. /\ i.csar = nsPkg /\ i.run = run /\ i.vnfs = config.vnfs
      /\ i.sound = ~fault
  BY DEF NewService
<1>2. /\ nsPkg \in 1..Len(packages)
      /\ packages[nsPkg].of = "ns" /\ packages[nsPkg].run = run
  BY IdsHeld DEF IsPackage
<1>3. ASSUME ~fault
      PROVE  /\ packages[nsPkg].content = "ns"
             /\ \A v \in In(config.vnfs) :
                  \E k \in 1..Len(packages) :
                    packages[k].of = v /\ packages[k].run = run
                    /\ packages[k].content = v
  <2>1. /\ Filled(nsPkg, "ns")
        /\ \A v \in In(config.vnfs) : vnfPkg[v] # None /\ Filled(vnfPkg[v], v)
    BY <1>3, ContentHeld DEF ContentInv, Accepted
  <2>2. \A v \in In(config.vnfs) : IsPackage(vnfPkg[v], v)
    BY <1>3, <2>1, IdFacts, IdsHeld, ContentHeld DEF Words
  <2> QED
    BY <2>1, <2>2 DEF Filled, IsPackage
<1>4. fault \in BOOLEAN
  BY Typed DEF ControlType
<1> QED
  BY <1>1, <1>2, <1>3, <1>4 DEF Packed

LEMMA ServicesStep == ASSUME IndInv, [Next]_vars PROVE ServicePackages'
<1>1. /\ instances \in Seq(InstanceType) /\ Len(instances) \in Nat
      /\ \A j \in 1..Len(instances) : Packed(packages', instances[j])
  <2>1. CatalogType /\ ServicePackages
    BY Typed DEF IndInv
  <2>2. \A j \in 1..Len(instances) : Packed(packages, instances[j])
    BY <2>1, ByIndex
  <2>3. \A j \in 1..Len(instances) : Packed(packages', instances[j])
    BY <2>2, StaysPacked
  <2>4. instances \in Seq(InstanceType) /\ Len(instances) \in Nat
    BY <2>1 DEF CatalogType
  <2> QED
    BY <2>3, <2>4
<1> SUFFICES \A j \in 1..Len(instances') : Packed(packages', instances'[j])
  BY ByIndex
<1>3. CASE UNCHANGED instances
  BY <1>1, <1>3
<1>4. CASE pc = "create_ns" /\ Accepted /\ instances' = Append(instances, NewService)
  <2> DEFINE n == Len(instances) + 1
  <2>1. NewService \in InstanceType
    BY <1>4, NewEntry DEF NewService
  <2>2. /\ Len(instances') = n /\ instances'[n] = NewService
        /\ \A j \in 1..Len(instances) : instances'[j] = instances[j]
    BY <1>1, <1>4, <2>1, Appended
  <2>3. Packed(packages', NewService)
    BY <1>4, NewIsPacked, StaysPacked
  <2>4. \A j \in 1..n : j \in 1..Len(instances) \/ j = n
    BY <1>1
  <2> QED
    BY <1>1, <2>2, <2>3, <2>4
<1>5. CASE instances' = [instances EXCEPT ![nsId].by = run]
  <2>1. Len(instances') = Len(instances)
    BY <1>1, <1>5
  <2> SUFFICES ASSUME NEW j \in 1..Len(instances)
               PROVE  Packed(packages', instances'[j])
    BY <2>1
  <2>2. instances[j] \in InstanceType /\ Packed(packages', instances[j])
    BY <1>1
  <2>3. CASE j # nsId
    <3>1. instances'[j] = instances[j]
      BY <1>1, <1>5, <2>3
    <3> QED
      BY <2>2, <3>1
  <2>4. CASE j = nsId
    <3>1. instances'[j] = [instances[j] EXCEPT !.by = run]
      BY <1>1, <1>5, <2>4
    <3>2. /\ instances'[j].csar = instances[j].csar
          /\ instances'[j].run = instances[j].run
          /\ instances'[j].vnfs = instances[j].vnfs
          /\ instances'[j].sound = instances[j].sound
      BY <2>2, <3>1 DEF InstanceType
    <3> QED
      BY <2>2, <3>2 DEF Packed
  <2> QED
    BY <2>3, <2>4
<1> QED
  BY <1>3, <1>4, <1>5, InstanceSteps

----------------------------------------------------------------------------
(* The invariant                                                           *)

LEMMA InitInv == Init => IndInv
<1> SUFFICES ASSUME Init PROVE IndInv
  OBVIOUS
<1>1. TypeOK
  <2>1. <<>> \in Seq(In(Regions) \cup In(Vnfms) \cup In(Vnfs) \cup In(Policies))
    OBVIOUS
  <2>2. 0 \in 0..MaxRuns /\ 0 \in 0..MaxFaults
    BY BoundAssumption
  <2>3. ControlType
    BY <2>2 DEF Init, ControlType, Stopped
  <2>4. CatalogType
    BY DEF Init, CatalogType
  <2> QED
    BY <2>1, <2>3, <2>4 DEF Init, TypeOK, ControlType, CatalogType, PackageType,
       InstanceType, Stopped
<1>2. LoopInv /\ BranchInv /\ ModelInv
  BY DEF Init, LoopInv, BranchInv, ModelInv, Stopped, Setup, Sdc, Local,
     Recording, Policing, Table
<1>3. ServiceInv /\ PackageInv
  BY NoneAssumption DEF Init, ServiceInv, PackageInv, Made, Accepted, ErrorWord,
     ContentMatches, In, Stopped, Setup, Sdc,
     Local, Recording, Policing
<1>4. ContentInv /\ ServicePackages /\ AbortsExplained
  BY DEF Init, ContentInv, ServicePackages, AbortsExplained, In, Recording,
     Policing
<1> QED
  BY <1>1, <1>2, <1>3, <1>4 DEF IndInv

LEMMA StepInv == IndInv /\ [Next]_vars => IndInv'
  BY TypeStep, LoopStep, BranchStep, ModelStep, ServiceStep, PackageStep,
     ContentStep, ServicesStep DEF IndInv

LEMMA Invariance == Spec => []IndInv
  BY InitInv, StepInv, PTL DEF Spec

(* The variables keep their types (TypeOK), whatever fails and however     *)
(* often the script is started.                                            *)
THEOREM TypeCorrect == Spec => []TypeOK
<1>1. IndInv => TypeOK
  BY DEF IndInv
<1> QED
  BY <1>1, Invariance, PTL

(* OwnPackages: no upload goes into another VNF's package, and no network  *)
(* service is made from a package that a killed run left behind.           *)
THEOREM PackagesKeptApart == Spec => []OwnPackages
<1>1. IndInv => OwnPackages
  BY DEF IndInv, OwnPackages, PackageInv
<1> QED
  BY <1>1, Invariance, PTL

----------------------------------------------------------------------------
(* The refinement                                                          *)

LEMMA LaterNothing ==
    ASSUME IndInv, NEW q \in 1..MaxRuns, q > run
    PROVE  Recorded(q) = "none" /\ Service(q) = "none"
<1>1. run \in Nat /\ \A i \in 1..Len(instances) : instances[i].run \in Nat
  BY RunsAreNumbers
<1>2. \A t \in Table : q \notin db[t]
  BY <1>1 DEF IndInv, ModelInv
<1>3. Made(q) = {}
  BY <1>1 DEF IndInv, ServiceInv, Made
<1> QED
  BY <1>2, <1>3 DEF Recorded, Service, Table

(* Only Commit changes the tables.                                         *)
LEMMA TableSteps == ASSUME IndInv, [Next]_vars 
    PROVE
        \/ UNCHANGED db
        \/ /\ pc = "commit" /\ UNCHANGED instances
           /\ db' = [t \in Table |-> IF t \in pending THEN db[t] \cup {run}
                                     ELSE db[t]]
<1> USE DEF System, Raise, Outside, Skip, vars, vfc, sql
<1>1. CASE create_complex
  BY <1>1 DEF create_complex
<1>2. CASE CloudCreate
  BY <1>2 DEF CloudCreate
<1>3. CASE ComplexAssociate
  BY <1>3 DEF ComplexAssociate
<1>4. CASE MulticloudRegister
  BY <1>4 DEF MulticloudRegister
<1>5. CASE create_service_type
  BY <1>5 DEF create_service_type
<1>6. CASE create_customer
  BY <1>6 DEF create_customer
<1>7. CASE add_customer_subscription
  BY <1>7 DEF add_customer_subscription, Subscribe
<1>8. CASE register_vnfm
  BY <1>8 DEF register_vnfm, Branch
<1>9. CASE onboard_vnf
  BY <1>9 DEF onboard_vnf
<1>10. CASE onboard_ns
  BY <1>10 DEF onboard_ns
<1>11. CASE create_vnf_package
  BY <1>11 DEF create_vnf_package, CreatePackage
<1>12. CASE create_ns_package
  BY <1>12 DEF create_ns_package, CreatePackage
<1>13. CASE upload_vnf_package
  BY <1>13 DEF upload_vnf_package, Put
<1>14. CASE upload_ns_package
  BY <1>14 DEF upload_ns_package, Put
<1>15. CASE DbFails
  BY <1>15 DEF DbFails
<1>16. CASE InsertOptimization
  BY <1>16 DEF InsertOptimization, Insert
<1>17. CASE InsertMicroservice
  BY <1>17 DEF InsertMicroservice, Insert
<1>18. CASE Commit
  BY <1>18 DEF Commit
<1>19. CASE PolicyCreate
  BY <1>19 DEF PolicyCreate, Unreliable
<1>20. CASE PolicyPush
  BY <1>20 DEF PolicyPush, Unreliable
<1>21. CASE ListdirFails
  BY <1>21 DEF ListdirFails
<1>22. CASE create_ns
  BY <1>22 DEF create_ns, CreateService, NewInstance
<1>23. CASE instantiate_ns
  BY <1>23 DEF instantiate_ns, Instantiate
<1>24. CASE Start
  BY <1>24 DEF Start
<1>25. CASE Kill
  BY <1>25 DEF Kill
<1>26. CASE UNCHANGED vars
  BY <1>26
<1> QED
  BY <1>1, <1>2, <1>3, <1>4, <1>5, <1>6, <1>7, <1>8, <1>9, <1>10, <1>11,
     <1>12, <1>13, <1>14, <1>15, <1>16, <1>17, <1>18, <1>19, <1>20, <1>21,
     <1>22, <1>23, <1>24, <1>25, <1>26
     DEF Next, Step, Inventory, Package, Policy

LEMMA RunInRange ==
    ASSUME IndInv, pc \in Recording \cup {"create_ns", "instantiate_ns"}
    PROVE  run \in 1..MaxRuns
  BY Typed DEF Recording, Stopped

LEMMA Unmoved ==
    /\ UNCHANGED db => UNCHANGED Models
    /\ UNCHANGED instances => UNCHANGED Services
<1>1. ASSUME UNCHANGED db PROVE \A r : Recorded(r)' = Recorded(r)
  BY <1>1 DEF Recorded
<1>2. ASSUME UNCHANGED instances PROVE \A r : Service(r)' = Service(r)
  BY <1>2 DEF Service, Made
<1> QED
  BY <1>1, <1>2 DEF Models, Services

(* Commit records both models of the run, whose service is still to come.  *)
LEMMA RecordStep ==
    ASSUME IndInv, pc = "commit", UNCHANGED instances,
           db' = [t \in Table |-> IF t \in pending THEN db[t] \cup {run} ELSE db[t]]
    PROVE  D!Record(run)
<1>1. run \in 1..MaxRuns
  BY RunInRange DEF Recording
<1>2. pending = Table /\ Made(run) = {} /\ \A t \in Table : run \notin db[t]
  BY DEF IndInv, ModelInv, ServiceInv, Recording
<1>3. \A t \in Table : db'[t] = db[t] \cup {run}
  BY <1>2
<1>4. Recorded(run) = "none" /\ Service(run) = "none"
  BY <1>2 DEF Recorded, Service, Table
<1>5. \A r : r = run => Recorded(r)' = "all"
  BY <1>3 DEF Recorded
<1>6. \A r : r # run => Recorded(r)' = Recorded(r)
  BY <1>3 DEF Recorded
<1>7. Models' = [Models EXCEPT ![run] = "all"]
  BY <1>1, <1>5, <1>6 DEF Models
<1>8. UNCHANGED Services
  BY Unmoved
<1>9. D!Latest(run)
  BY LaterNothing DEF D!Latest, D!Run, Models, Services
<1> QED
  BY <1>1, <1>4, <1>7, <1>8, <1>9 DEF D!Record, Models, Services

(* create_ns makes the one service of a run whose models are recorded.     *)
LEMMA CreateStep ==
    ASSUME IndInv, pc = "create_ns", Accepted, UNCHANGED db,
           instances' = Append(instances, NewService)
    PROVE  D!Create(run)
<1> DEFINE n == Len(instances) + 1
<1>1. run \in 1..MaxRuns
  BY RunInRange
<1>2. Made(run) = {} /\ \A t \in Table : run \in db[t]
  BY DEF IndInv, ModelInv, ServiceInv
<1>3. /\ n \in Nat /\ Len(instances') = n /\ instances'[n] = NewService
      /\ Len(instances) \in Nat
      /\ \A i \in 1..Len(instances) : instances'[i] = instances[i]
  BY Typed, NewEntry, Appended DEF NewService, CatalogType
<1>4. NewService.run = run /\ NewService.by = 0
  BY DEF NewService
<1>5. \A r : r # run => Made(r)' = Made(r)
  BY <1>3, <1>4 DEF Made
<1>6. \A r : r = run => Made(r)' = {n}
  BY <1>2, <1>3, <1>4 DEF Made
<1>7. \A r : r = run => Service(r)' = "created"
  BY <1>3, <1>4, <1>6 DEF Service
<1>8. \A r : r # run => Service(r)' = Service(r)
  <2> SUFFICES ASSUME NEW r, r # run
               PROVE  Service(r)' = Service(r)
    OBVIOUS
  <2>1. Made(r)' = Made(r) /\ \A i \in Made(r) : instances'[i] = instances[i]
    BY <1>3, <1>5 DEF Made
  <2> QED
    BY <2>1 DEF Service
<1>9. Services' = [Services EXCEPT ![run] = "created"]
  BY <1>1, <1>7, <1>8 DEF Services
<1>10. Recorded(run) = "all" /\ Service(run) = "none"
  BY <1>2 DEF Recorded, Service
<1>11. D!Latest(run)
  BY LaterNothing DEF D!Latest, D!Run, Models, Services
<1> QED
  BY <1>1, <1>9, <1>10, <1>11, Unmoved DEF D!Create, Models, Services

(* instantiate_ns instantiates the service this run has made.              *)
LEMMA InstantiateStep ==
    ASSUME IndInv, pc = "instantiate_ns", nsId # ErrorWord, UNCHANGED db,
           instances' = [instances EXCEPT ![nsId].by = run]
    PROVE  D!Instantiate(run)
<1>1. run \in 1..MaxRuns /\ run # 0
  BY RunInRange
<1>2. /\ nsId \in 1..Len(instances) /\ Made(run) = {nsId}
      /\ instances[nsId].by = 0
  BY DEF IndInv, ServiceInv
<1>3. /\ instances \in Seq(InstanceType)
      /\ \A i \in 1..Len(instances) : instances[i] \in InstanceType
  <2>1. instances \in Seq(InstanceType)
    BY Typed DEF CatalogType
  <2> QED
    BY <2>1
<1>4. /\ Len(instances') = Len(instances)
      /\ \A i \in 1..Len(instances) : i # nsId => instances'[i] = instances[i]
      /\ instances'[nsId] = [instances[nsId] EXCEPT !.by = run]
  BY <1>2, <1>3
<1>5. /\ instances'[nsId].run = instances[nsId].run
      /\ instances'[nsId].by = run
  BY <1>2, <1>3, <1>4 DEF InstanceType
<1>6. \A r : Made(r)' = Made(r)
  BY <1>4, <1>5 DEF Made
<1>7. \A r : r = run => Service(r)' = "instantiated"
  BY <1>1, <1>2, <1>5, <1>6 DEF Service
<1>8. \A r : r # run => Service(r)' = Service(r)
  <2> SUFFICES ASSUME NEW r, r # run
               PROVE  Service(r)' = Service(r)
    OBVIOUS
  <2>1. \A i \in Made(r) : instances'[i] = instances[i]
    BY <1>2, <1>4 DEF Made
  <2> QED
    BY <1>6, <2>1 DEF Service
<1>9. Services' = [Services EXCEPT ![run] = "instantiated"]
  BY <1>1, <1>7, <1>8 DEF Services
<1>10. Service(run) = "created"
  BY <1>2 DEF Service
<1>11. D!Latest(run)
  BY LaterNothing DEF D!Latest, D!Run, Models, Services
<1> QED
  BY <1>1, <1>9, <1>10, <1>11, Unmoved DEF D!Instantiate, Models, Services

LEMMA RefinesInit == Init => D!Init
  BY DEF Init, D!Init, D!Run, Models, Services, Recorded, Service, Made, Table

LEMMA RefinesStep ==
    ASSUME IndInv, [Next]_vars
    PROVE  [D!Next]_(D!deployVars)
<1>1. CASE UNCHANGED db /\ UNCHANGED instances
  BY <1>1, Unmoved DEF D!deployVars
<1>2. CASE /\ pc = "commit" /\ UNCHANGED instances
           /\ db' = [t \in Table |-> IF t \in pending THEN db[t] \cup {run}
                                     ELSE db[t]]
  BY <1>2, RecordStep, RunInRange DEF D!Next, D!Run, Recording
<1>3. CASE /\ pc = "create_ns" /\ Accepted /\ UNCHANGED db
           /\ instances' = Append(instances, NewService)
  BY <1>3, CreateStep, RunInRange DEF D!Next, D!Run
<1>4. CASE /\ pc = "instantiate_ns" /\ nsId # ErrorWord /\ UNCHANGED db
           /\ instances' = [instances EXCEPT ![nsId].by = run]
  BY <1>4, InstantiateStep, RunInRange DEF D!Next, D!Run
<1> QED
  BY <1>1, <1>2, <1>3, <1>4, InstanceSteps, TableSteps

(* ImplementsDeployment: whatever fails and wherever the script is killed, *)
(* in each run the models are recorded together, then one service is       *)
(* created, then that one is instantiated, and earlier runs are let be.    *)
THEOREM DeploymentImplemented == Spec => ImplementsDeployment
  BY RefinesInit, RefinesStep, Invariance, PTL
  DEF Spec, ImplementsDeployment, D!Spec

----------------------------------------------------------------------------
(* Runs that reach the end                                                 *)

(* What a run without a failure has put in place so far.                   *)
Finish == Sdc \cup Local \cup Recording \cup Policing
            \cup {"create_ns", "instantiate_ns", "done"}
Regional == {"cloud", "associate", "multicloud"}

Placed(r) == {<<"cloud", r>>, <<"located", r>>, <<"multicloud", r>>} \subseteq onap

RegionPart ==
    /\ pc \in Regional
         => /\ <<"complex", None>> \in onap
            /\ \A r \in In(Regions) : r \in In(todo) \/ Placed(r)
    /\ pc \in {"associate", "multicloud"} => <<"cloud", Head(todo)>> \in onap
    /\ pc = "multicloud" => <<"located", Head(todo)>> \in onap
    /\ pc \in Finish \cup {"service_type", "customer", "subscription", "vnfm"}
         => <<"complex", None>> \in onap /\ \A r \in In(Regions) : Placed(r)

SubscriptionPart ==
    /\ pc \in Finish \cup {"customer", "subscription", "vnfm"}
         => <<"service", None>> \in onap
    /\ pc \in Finish \cup {"subscription", "vnfm"} => <<"customer", None>> \in onap
    /\ pc = "subscription"
         => /\ ~first => <<"subscription", None>> \in onap
            /\ \A r \in In(Regions) : r \in In(todo) \/ <<"tenant", r>> \in onap
    /\ pc \in Finish \cup {"vnfm"}
         => /\ <<"subscription", None>> \in onap
            /\ \A r \in In(Regions) : <<"tenant", r>> \in onap

VnfmPart ==
    /\ pc = "vnfm"
         => \A v \in In(Vnfms) : v \in In(todo) \/ <<"vnfm", v>> \in onap
    /\ pc \in Finish => \A v \in In(Vnfms) : <<"vnfm", v>> \in onap

EndPart ==
    config.model = "local" =>
      /\ pc = "instantiate_ns" => nsId # ErrorWord
      /\ pc = "done" => instances[nsId].run = run /\ instances[nsId].by = run

(* A subscription comes with the first region, in whichever run it was     *)
(* made: no later run adds that one.                                       *)
FirstPart ==
    /\ <<"subscription", None>> \in onap => <<"tenant", Head(Regions)>> \in onap
    /\ pc \in Regional \cup {"complex", "service_type", "customer"} => first
    /\ pc = "subscription" /\ first => todo = Regions

CleanInv ==
    /\ FirstPart
    /\ ~fault => RegionPart /\ SubscriptionPart /\ VnfmPart /\ EndPart

(* What the steps of this section use of IndInv.                           *)
LEMMA Looping ==
    ASSUME IndInv
    PROVE  /\ pc \in Regional \cup {"subscription"}
                => todo \in Seq(In(Regions)) /\ todo # <<>>
           /\ pc = "vnfm" => todo \in Seq(In(Vnfms)) /\ todo # <<>>
           /\ pc \in Policing => todo \in Seq(In(Policies)) /\ todo # <<>>
           /\ fault \in BOOLEAN /\ first \in BOOLEAN
           /\ config.model \in {"sdc", "local"}
<1>1. LoopInv /\ ControlType
  BY Typed DEF IndInv
<1> QED
  BY <1>1 DEF LoopInv, ControlType, Regional

(* Nothing is taken out of ONAP; a failure is forgotten by the next start. *)
LEMMA Grows == ASSUME IndInv, [Next]_vars 
    PROVE
        /\ onap \subseteq onap'
        /\ fault /\ pc' # "complex" => fault'
        /\ pc' = "complex" => pc \in Stopped \/ (pc = pc' /\ UNCHANGED vars)
<1> USE DEF Goto, Same, NextItem, System, Raise, Fault, NoFault, Outside,
        Skip, vars, script, history, Stopped
<1>1. CASE create_complex
  BY <1>1 DEF create_complex
<1>2. CASE CloudCreate
  BY <1>2 DEF CloudCreate
<1>3. CASE ComplexAssociate
  BY <1>3 DEF ComplexAssociate
<1>4. CASE MulticloudRegister
  BY <1>4 DEF MulticloudRegister
<1>5. CASE create_service_type
  BY <1>5 DEF create_service_type
<1>6. CASE create_customer
  BY <1>6 DEF create_customer
<1>7. CASE add_customer_subscription
  BY <1>7 DEF add_customer_subscription, Subscribe
<1>8. CASE register_vnfm
  BY <1>8 DEF register_vnfm, Branch
<1>9. CASE onboard_vnf
  BY <1>9 DEF onboard_vnf
<1>10. CASE onboard_ns
  BY <1>10 DEF onboard_ns
<1>11. CASE create_vnf_package
  BY <1>11 DEF create_vnf_package, CreatePackage
<1>12. CASE create_ns_package
  BY <1>12 DEF create_ns_package, CreatePackage
<1>13. CASE upload_vnf_package
  BY <1>13 DEF upload_vnf_package, Put
<1>14. CASE upload_ns_package
  BY <1>14 DEF upload_ns_package, Put
<1>15. CASE DbFails
  BY <1>15 DEF DbFails
<1>16. CASE InsertOptimization
  BY <1>16 DEF InsertOptimization, Insert
<1>17. CASE InsertMicroservice
  BY <1>17 DEF InsertMicroservice, Insert
<1>18. CASE Commit
  BY <1>18 DEF Commit
<1>19. CASE PolicyCreate
  BY <1>19 DEF PolicyCreate, Unreliable
<1>20. CASE PolicyPush
  BY <1>20 DEF PolicyPush, Unreliable
<1>21. CASE ListdirFails
  BY <1>21 DEF ListdirFails
<1>22. CASE create_ns
  BY <1>22 DEF create_ns, CreateService, NewInstance
<1>23. CASE instantiate_ns
  BY <1>23 DEF instantiate_ns, Instantiate
<1>24. CASE Start
  BY <1>24 DEF Start
<1>25. CASE Kill
  BY <1>25 DEF Kill
<1>26. CASE UNCHANGED vars
  BY <1>26
<1> QED
  BY <1>1, <1>2, <1>3, <1>4, <1>5, <1>6, <1>7, <1>8, <1>9, <1>10, <1>11,
     <1>12, <1>13, <1>14, <1>15, <1>16, <1>17, <1>18, <1>19, <1>20, <1>21,
     <1>22, <1>23, <1>24, <1>25, <1>26
     DEF Next, Step, Inventory, Package, Policy

(* Where subscribing starts: the region of the subscription is there, and  *)
(* the clouds are.                                                         *)
LEMMA Placing ==
    ASSUME IndInv, CleanInv, pc = "subscription", ~fault
    PROVE  /\ <<"cloud", Head(todo)>> \in onap
           /\ Head(todo) \in In(todo) /\ Head(todo) \in In(Regions)
           /\ <<"subscription", None>> \in onap /\ first
                => <<"tenant", Head(todo)>> \in onap
<1>1. Head(todo) \in In(todo) /\ Head(todo) \in In(Regions)
  BY Looping, HeadTail
<1>2. \A r \in In(Regions) : Placed(r)
  BY DEF CleanInv, RegionPart
<1> QED
  BY <1>1, <1>2 DEF Placed, CleanInv, FirstPart

(* The first region comes with the subscription.                           *)
LEMMA FirstStep == ASSUME IndInv, CleanInv, [Next]_vars PROVE FirstPart'
<1> USE Configured
    DEF FirstPart, CleanInv, Goto, Same, NextItem, System, Raise, Fault,
        NoFault, Outside, Skip, vars, script, history, Stopped, Setup, Sdc,
        Local, Recording, Policing, Regional, Finish
<1>1. CASE create_complex
  BY <1>1 DEF create_complex
<1>2. CASE CloudCreate
  BY <1>2 DEF CloudCreate
<1>3. CASE ComplexAssociate
  BY <1>3 DEF ComplexAssociate
<1>4. CASE MulticloudRegister
  BY <1>4 DEF MulticloudRegister
<1>5. CASE create_service_type
  BY <1>5 DEF create_service_type
<1>6. CASE create_customer
  BY <1>6 DEF create_customer
<1>7. CASE add_customer_subscription
  BY <1>7 DEF add_customer_subscription, Subscribe
<1>8. CASE register_vnfm
  BY <1>8 DEF register_vnfm, Branch
<1>9. CASE onboard_vnf
  BY <1>9 DEF onboard_vnf
<1>10. CASE onboard_ns
  BY <1>10 DEF onboard_ns
<1>11. CASE create_vnf_package
  BY <1>11 DEF create_vnf_package, CreatePackage
<1>12. CASE create_ns_package
  BY <1>12 DEF create_ns_package, CreatePackage
<1>13. CASE upload_vnf_package
  BY <1>13 DEF upload_vnf_package, Put
<1>14. CASE upload_ns_package
  BY <1>14 DEF upload_ns_package, Put
<1>15. CASE DbFails
  BY <1>15 DEF DbFails
<1>16. CASE InsertOptimization
  BY <1>16 DEF InsertOptimization, Insert
<1>17. CASE InsertMicroservice
  BY <1>17 DEF InsertMicroservice, Insert
<1>18. CASE Commit
  BY <1>18 DEF Commit
<1>19. CASE PolicyCreate
  BY <1>19 DEF PolicyCreate, Unreliable
<1>20. CASE PolicyPush
  BY <1>20 DEF PolicyPush, Unreliable
<1>21. CASE ListdirFails
  BY <1>21 DEF ListdirFails
<1>22. CASE create_ns
  BY <1>22 DEF create_ns, CreateService, NewInstance
<1>23. CASE instantiate_ns
  BY <1>23 DEF instantiate_ns, Instantiate
<1>24. CASE Start
  BY <1>24 DEF Start
<1>25. CASE Kill
  BY <1>25 DEF Kill
<1>26. CASE UNCHANGED vars
  BY <1>26
<1> QED
  BY <1>1, <1>2, <1>3, <1>4, <1>5, <1>6, <1>7, <1>8, <1>9, <1>10, <1>11,
     <1>12, <1>13, <1>14, <1>15, <1>16, <1>17, <1>18, <1>19, <1>20, <1>21,
     <1>22, <1>23, <1>24, <1>25, <1>26
     DEF Next, Step, Inventory, Package, Policy

(* The regions, one after another.                                         *)
LEMMA RegionStep == ASSUME IndInv, CleanInv, [Next]_vars PROVE (~fault => RegionPart)'
<1> USE Looping, Configured
    DEF RegionPart, CleanInv, Placed, Goto, Same, NextItem, System, Raise,
        Fault, NoFault, Outside, Skip, vars, script, history, Stopped,
        Setup, Sdc, Local, Recording, Policing, Regional, Finish
<1>1. CASE create_complex
  BY <1>1 DEF create_complex
<1>2. CASE CloudCreate
  BY <1>2 DEF CloudCreate
<1>3. CASE ComplexAssociate
  BY <1>3 DEF ComplexAssociate
<1>4. CASE MulticloudRegister
  <2>1. /\ Head(todo) \in In(todo)
        /\ \A x \in In(todo) : x = Head(todo) \/ x \in In(Tail(todo))
        /\ ~(Len(todo) > 1) => In(todo) = {Head(todo)}
    BY <1>4, Looping, HeadTail DEF MulticloudRegister, Regional
  <2>2. CASE fault'
    BY <2>2
  <2>3. CASE ~fault'
    <3> DEFINE x == Head(todo)
    <3>1. /\ onap' = onap \cup {<<"multicloud", x>>}
          /\ <<"cloud", x>> \in onap /\ <<"located", x>> \in onap
          /\ <<"complex", None>> \in onap
      BY <1>4, <2>3 DEF MulticloudRegister
    <3>2. /\ \A r \in In(Regions) : r \in In(todo) \/ Placed(r)
          /\ {<<"cloud", x>>, <<"located", x>>, <<"multicloud", x>>} \subseteq onap'
          /\ onap \subseteq onap'
      BY <1>4, <2>3, <3>1 DEF MulticloudRegister
    <3>3. \A r \in In(Regions) : r \in In(Tail(todo)) \/ {<<"cloud", r>>, <<"located", r>>,
                                                <<"multicloud", r>>} \subseteq onap'
      BY <2>1, <3>1, <3>2
    <3>4. ~(Len(todo) > 1) => \A r \in In(Regions) : {<<"cloud", r>>, <<"located", r>>,
                                                <<"multicloud", r>>} \subseteq onap'
      BY <2>1, <3>1, <3>2
    <3> QED
      BY <1>4, <3>1, <3>3, <3>4, Configured DEF MulticloudRegister
  <2> QED
    BY <2>2, <2>3
<1>5. CASE create_service_type
  BY <1>5 DEF create_service_type
<1>6. CASE create_customer
  BY <1>6 DEF create_customer
<1>7. CASE add_customer_subscription
  BY <1>7 DEF add_customer_subscription, Subscribe
<1>8. CASE register_vnfm
  BY <1>8 DEF register_vnfm, Branch
<1>9. CASE onboard_vnf
  BY <1>9 DEF onboard_vnf
<1>10. CASE onboard_ns
  BY <1>10 DEF onboard_ns
<1>11. CASE create_vnf_package
  BY <1>11 DEF create_vnf_package, CreatePackage
<1>12. CASE create_ns_package
  BY <1>12 DEF create_ns_package, CreatePackage
<1>13. CASE upload_vnf_package
  BY <1>13 DEF upload_vnf_package, Put
<1>14. CASE upload_ns_package
  BY <1>14 DEF upload_ns_package, Put
<1>15. CASE DbFails
  BY <1>15 DEF DbFails
<1>16. CASE InsertOptimization
  BY <1>16 DEF InsertOptimization, Insert
<1>17. CASE InsertMicroservice
  BY <1>17 DEF InsertMicroservice, Insert
<1>18. CASE Commit
  BY <1>18 DEF Commit
<1>19. CASE PolicyCreate
  BY <1>19 DEF PolicyCreate, Unreliable
<1>20. CASE PolicyPush
  BY <1>20 DEF PolicyPush, Unreliable
<1>21. CASE ListdirFails
  BY <1>21 DEF ListdirFails
<1>22. CASE create_ns
  BY <1>22 DEF create_ns, CreateService, NewInstance
<1>23. CASE instantiate_ns
  BY <1>23 DEF instantiate_ns, Instantiate
<1>24. CASE Start
  BY <1>24 DEF Start
<1>25. CASE Kill
  BY <1>25 DEF Kill
<1>26. CASE UNCHANGED vars
  BY <1>26
<1> QED
  BY <1>1, <1>2, <1>3, <1>4, <1>5, <1>6, <1>7, <1>8, <1>9, <1>10, <1>11,
     <1>12, <1>13, <1>14, <1>15, <1>16, <1>17, <1>18, <1>19, <1>20, <1>21,
     <1>22, <1>23, <1>24, <1>25, <1>26
     DEF Next, Step, Inventory, Package, Policy

(* The service, the customer, the subscription and its regions.            *)
LEMMA SubscriptionStep == ASSUME IndInv, CleanInv, [Next]_vars PROVE (~fault => SubscriptionPart)'
<1> USE Looping, Configured
    DEF SubscriptionPart, CleanInv, FirstPart, Goto, Same, NextItem, System,
        Raise, Fault, NoFault, Outside, Skip, vars, script, history,
        Stopped, Setup, Sdc, Local, Recording, Policing, Regional, Finish
<1>1. CASE create_complex
  BY <1>1 DEF create_complex
<1>2. CASE CloudCreate
  BY <1>2 DEF CloudCreate
<1>3. CASE ComplexAssociate
  BY <1>3 DEF ComplexAssociate
<1>4. CASE MulticloudRegister
  BY <1>4 DEF MulticloudRegister
<1>5. CASE create_service_type
  BY <1>5 DEF create_service_type
<1>6. CASE create_customer
  BY <1>6 DEF create_customer
<1>7. CASE add_customer_subscription
  <2>1. /\ Head(todo) \in In(todo)
        /\ \A x \in In(todo) : x = Head(todo) \/ x \in In(Tail(todo))
        /\ ~(Len(todo) > 1) => In(todo) = {Head(todo)}
    BY <1>7, Looping, HeadTail DEF add_customer_subscription, Regional
  <2>2. CASE fault'
    BY <2>2
  <2>3. CASE ~fault'
    <3> DEFINE x == Head(todo)
    <3>1. /\ <<"service", None>> \in onap' /\ <<"customer", None>> \in onap'
          /\ <<"subscription", None>> \in onap' /\ onap \subseteq onap'
      BY <1>7, <2>3, Placing DEF add_customer_subscription, Subscribe
    <3>2. /\ \A r \in In(Regions) : r \in In(todo) \/ <<"tenant", r>> \in onap
          /\ <<"tenant", x>> \in onap'
      BY <1>7, <2>3, Placing DEF add_customer_subscription, Subscribe
    <3>3. \A r \in In(Regions) : r \in In(Tail(todo)) \/ <<"tenant", r>> \in onap'
      BY <2>1, <3>1, <3>2
    <3>4. ~(Len(todo) > 1) => \A r \in In(Regions) : <<"tenant", r>> \in onap'
      BY <2>1, <3>1, <3>2
    <3> QED
      BY <1>7, <3>1, <3>3, <3>4, Configured DEF add_customer_subscription
  <2> QED
    BY <2>2, <2>3
<1>8. CASE register_vnfm
  BY <1>8 DEF register_vnfm, Branch
<1>9. CASE onboard_vnf
  BY <1>9 DEF onboard_vnf
<1>10. CASE onboard_ns
  BY <1>10 DEF onboard_ns
<1>11. CASE create_vnf_package
  BY <1>11 DEF create_vnf_package, CreatePackage
<1>12. CASE create_ns_package
  BY <1>12 DEF create_ns_package, CreatePackage
<1>13. CASE upload_vnf_package
  BY <1>13 DEF upload_vnf_package, Put
<1>14. CASE upload_ns_package
  BY <1>14 DEF upload_ns_package, Put
<1>15. CASE DbFails
  BY <1>15 DEF DbFails
<1>16. CASE InsertOptimization
  BY <1>16 DEF InsertOptimization, Insert
<1>17. CASE InsertMicroservice
  BY <1>17 DEF InsertMicroservice, Insert
<1>18. CASE Commit
  BY <1>18 DEF Commit
<1>19. CASE PolicyCreate
  BY <1>19 DEF PolicyCreate, Unreliable
<1>20. CASE PolicyPush
  BY <1>20 DEF PolicyPush, Unreliable
<1>21. CASE ListdirFails
  BY <1>21 DEF ListdirFails
<1>22. CASE create_ns
  BY <1>22 DEF create_ns, CreateService, NewInstance
<1>23. CASE instantiate_ns
  BY <1>23 DEF instantiate_ns, Instantiate
<1>24. CASE Start
  BY <1>24 DEF Start
<1>25. CASE Kill
  BY <1>25 DEF Kill
<1>26. CASE UNCHANGED vars
  BY <1>26
<1> QED
  BY <1>1, <1>2, <1>3, <1>4, <1>5, <1>6, <1>7, <1>8, <1>9, <1>10, <1>11,
     <1>12, <1>13, <1>14, <1>15, <1>16, <1>17, <1>18, <1>19, <1>20, <1>21,
     <1>22, <1>23, <1>24, <1>25, <1>26
     DEF Next, Step, Inventory, Package, Policy

(* The VNF managers.                                                       *)
LEMMA VnfmStep == ASSUME IndInv, CleanInv, [Next]_vars PROVE (~fault => VnfmPart)'
<1> USE Looping, Configured
    DEF VnfmPart, CleanInv, Goto, Same, NextItem, System, Raise, Fault,
        NoFault, Outside, Skip, vars, script, history, Stopped, Setup, Sdc,
        Local, Recording, Policing, Regional, Finish
<1>1. CASE create_complex
  BY <1>1 DEF create_complex
<1>2. CASE CloudCreate
  BY <1>2 DEF CloudCreate
<1>3. CASE ComplexAssociate
  BY <1>3 DEF ComplexAssociate
<1>4. CASE MulticloudRegister
  BY <1>4 DEF MulticloudRegister
<1>5. CASE create_service_type
  BY <1>5 DEF create_service_type
<1>6. CASE create_customer
  BY <1>6 DEF create_customer
<1>7. CASE add_customer_subscription
  BY <1>7 DEF add_customer_subscription, Subscribe
<1>8. CASE register_vnfm
  <2>1. /\ Head(todo) \in In(todo)
        /\ \A x \in In(todo) : x = Head(todo) \/ x \in In(Tail(todo))
        /\ ~(Len(todo) > 1) => In(todo) = {Head(todo)}
    BY <1>8, Looping, HeadTail DEF register_vnfm
  <2>2. CASE fault'
    BY <2>2
  <2>3. CASE ~fault'
    <3> DEFINE x == Head(todo)
    <3>1. onap' = onap \cup {<<"vnfm", x>>} /\ ~fault
      BY <1>8, <2>3 DEF register_vnfm
    <3>2. \A r \in In(Vnfms) : r \in In(todo) \/ <<"vnfm", r>> \in onap
      BY <1>8, <3>1 DEF register_vnfm
    <3>3. \A r \in In(Vnfms) : r \in In(Tail(todo)) \/ <<"vnfm", r>> \in onap'
      BY <2>1, <3>1, <3>2
    <3>4. ~(Len(todo) > 1) => \A r \in In(Vnfms) : <<"vnfm", r>> \in onap'
      BY <2>1, <3>1, <3>2
    <3> QED
      BY <1>8, <3>1, <3>3, <3>4 DEF register_vnfm, Branch
  <2> QED
    BY <2>2, <2>3
<1>9. CASE onboard_vnf
  BY <1>9 DEF onboard_vnf
<1>10. CASE onboard_ns
  BY <1>10 DEF onboard_ns
<1>11. CASE create_vnf_package
  BY <1>11 DEF create_vnf_package, CreatePackage
<1>12. CASE create_ns_package
  BY <1>12 DEF create_ns_package, CreatePackage
<1>13. CASE upload_vnf_package
  BY <1>13 DEF upload_vnf_package, Put
<1>14. CASE upload_ns_package
  BY <1>14 DEF upload_ns_package, Put
<1>15. CASE DbFails
  BY <1>15 DEF DbFails
<1>16. CASE InsertOptimization
  BY <1>16 DEF InsertOptimization, Insert
<1>17. CASE InsertMicroservice
  BY <1>17 DEF InsertMicroservice, Insert
<1>18. CASE Commit
  BY <1>18 DEF Commit
<1>19. CASE PolicyCreate
  BY <1>19 DEF PolicyCreate, Unreliable
<1>20. CASE PolicyPush
  BY <1>20 DEF PolicyPush, Unreliable
<1>21. CASE ListdirFails
  BY <1>21 DEF ListdirFails
<1>22. CASE create_ns
  BY <1>22 DEF create_ns, CreateService, NewInstance
<1>23. CASE instantiate_ns
  BY <1>23 DEF instantiate_ns, Instantiate
<1>24. CASE Start
  BY <1>24 DEF Start
<1>25. CASE Kill
  BY <1>25 DEF Kill
<1>26. CASE UNCHANGED vars
  BY <1>26
<1> QED
  BY <1>1, <1>2, <1>3, <1>4, <1>5, <1>6, <1>7, <1>8, <1>9, <1>10, <1>11,
     <1>12, <1>13, <1>14, <1>15, <1>16, <1>17, <1>18, <1>19, <1>20, <1>21,
     <1>22, <1>23, <1>24, <1>25, <1>26
     DEF Next, Step, Inventory, Package, Policy

(* Only instantiate_ns ends a run in order, and only create_ns leads to it. *)
LEMMA OnlyEnd ==
    ASSUME IndInv, [Next]_vars
    PROVE  /\ pc' = "done" => instantiate_ns \/ UNCHANGED vars
           /\ pc' = "instantiate_ns" => create_ns \/ UNCHANGED vars
<1> USE DEF Goto, Same, NextItem, System, Raise, Outside, Skip
<1>1. CASE create_complex
  BY <1>1 DEF create_complex
<1>2. CASE CloudCreate
  BY <1>2 DEF CloudCreate
<1>3. CASE ComplexAssociate
  BY <1>3 DEF ComplexAssociate
<1>4. CASE MulticloudRegister
  BY <1>4 DEF MulticloudRegister
<1>5. CASE create_service_type
  BY <1>5 DEF create_service_type
<1>6. CASE create_customer
  BY <1>6 DEF create_customer
<1>7. CASE add_customer_subscription
  BY <1>7 DEF add_customer_subscription, Subscribe
<1>8. CASE register_vnfm
  BY <1>8 DEF register_vnfm, Branch
<1>9. CASE onboard_vnf
  BY <1>9 DEF onboard_vnf
<1>10. CASE onboard_ns
  BY <1>10 DEF onboard_ns
<1>11. CASE create_vnf_package
  BY <1>11 DEF create_vnf_package, CreatePackage
<1>12. CASE create_ns_package
  BY <1>12 DEF create_ns_package, CreatePackage
<1>13. CASE upload_vnf_package
  BY <1>13 DEF upload_vnf_package, Put
<1>14. CASE upload_ns_package
  BY <1>14 DEF upload_ns_package, Put
<1>15. CASE DbFails
  BY <1>15 DEF DbFails
<1>16. CASE InsertOptimization
  BY <1>16 DEF InsertOptimization, Insert
<1>17. CASE InsertMicroservice
  BY <1>17 DEF InsertMicroservice, Insert
<1>18. CASE Commit
  BY <1>18 DEF Commit
<1>19. CASE PolicyCreate
  BY <1>19 DEF PolicyCreate, Unreliable
<1>20. CASE PolicyPush
  BY <1>20 DEF PolicyPush, Unreliable
<1>21. CASE ListdirFails
  BY <1>21 DEF ListdirFails
<1>22. CASE create_ns
  BY <1>22 DEF create_ns, CreateService, NewInstance
<1>23. CASE instantiate_ns
  BY <1>23 DEF instantiate_ns, Instantiate
<1>24. CASE Start
  BY <1>24 DEF Start
<1>25. CASE Kill
  BY <1>25 DEF Kill
<1>26. CASE UNCHANGED vars
  BY <1>26
<1> QED
  BY <1>1, <1>2, <1>3, <1>4, <1>5, <1>6, <1>7, <1>8, <1>9, <1>10, <1>11,
     <1>12, <1>13, <1>14, <1>15, <1>16, <1>17, <1>18, <1>19, <1>20, <1>21,
     <1>22, <1>23, <1>24, <1>25, <1>26
     DEF Next, Step, Inventory, Package, Policy

(* The network service of the run.                                         *)
LEMMA EndStep == ASSUME IndInv, CleanInv, [Next]_vars PROVE (~fault => EndPart)'
<1> SUFFICES ASSUME ~fault', config'.model = "local"
             PROVE  /\ pc' = "instantiate_ns" => nsId' # ErrorWord
                    /\ pc' = "done" => /\ instances'[nsId'].run = run'
                                       /\ instances'[nsId'].by = run'
  BY DEF EndPart
<1>1. CASE UNCHANGED vars
  BY <1>1 DEF CleanInv, EndPart, vars, script, vfc, history
<1>2. CASE instantiate_ns
  <2>1. /\ nsId' = nsId /\ run' = run /\ pc' = "done" /\ nsId # ErrorWord
        /\ instances' = [instances EXCEPT ![nsId].by = run]
    BY <1>2 DEF instantiate_ns, Instantiate, Fault, NoFault, Outside, Goto,
       CleanInv, EndPart
  <2>2. nsId \in 1..Len(instances) /\ instances[nsId].run = run
    BY <1>2, <2>1 DEF instantiate_ns, Instantiate, IndInv, ServiceInv, Made
  <2>3. instances[nsId] \in InstanceType /\ instances \in Seq(InstanceType)
    <3>1. instances \in Seq(InstanceType)
      BY Typed DEF CatalogType
    <3> QED
      BY <2>2, <3>1
  <2>4. instances'[nsId] = [instances[nsId] EXCEPT !.by = run]
    BY <2>1, <2>2, <2>3
  <2> QED
    BY <2>1, <2>2, <2>3, <2>4 DEF InstanceType
<1>3. CASE create_ns
  <2>1. pc' \in {"instantiate_ns", "error"}
    BY <1>3 DEF create_ns, Goto, Raise
  <2>2. ~fault /\ config.model = "local" /\ pc = "create_ns"
    BY <1>3 DEF create_ns, CreateService, Fault, NoFault, Outside
  <2>3. Accepted /\ Len(instances) + 1 # ErrorWord
    BY <2>2, Typed DEF Accepted, IndInv, BranchInv, PackageInv, CatalogType, ErrorWord
  <2> QED
    BY <1>3, <2>1, <2>2, <2>3 DEF create_ns, CreateService, Fault, NoFault, Goto, Raise
<1> QED
  BY <1>1, <1>2, <1>3, OnlyEnd

LEMMA CleanInit == Init => CleanInv
  BY DEF Init, CleanInv, FirstPart, RegionPart, SubscriptionPart, VnfmPart,
     EndPart, Finish, Regional, Setup, Sdc, Local, Recording, Policing

LEMMA CleanStep == ASSUME IndInv, CleanInv, [Next]_vars PROVE CleanInv'
  BY FirstStep, RegionStep, SubscriptionStep, VnfmStep, EndStep
  DEF CleanInv

LEMMA CleanInvariance == Spec => [](IndInv /\ CleanInv)
<1>1. Init => IndInv /\ CleanInv
  BY InitInv, CleanInit
<1>2. IndInv /\ CleanInv /\ [Next]_vars => (IndInv /\ CleanInv)'
  BY StepInv, CleanStep
<1> QED
  BY <1>1, <1>2, PTL DEF Spec

(* EndsExplained: a run without failures outside that reaches the end has  *)
(* everything in place, whatever earlier runs left half done, with the one *)
(* exception that -t sdc makes no service; and one that aborts was not     *)
(* started with -t local and VNFs, the way that can work to the end.       *)
THEOREM EndsAreExplained == Spec => []EndsExplained
<1>1. IndInv => \A i \in In(instances) : config.model = "sdc" => i.run # run
  BY DEF IndInv, ServiceInv, Made, In
<1>2. IndInv /\ CleanInv => EndsExplained
  <2>0. SUFFICES ASSUME IndInv, CleanInv, pc = "done", ~fault
                 PROVE  /\ {<<"complex", None>>, <<"service", None>>,
                            <<"customer", None>>, <<"subscription", None>>}
                              \subseteq onap
                        /\ {"cloud", "located", "multicloud", "tenant"} \X In(Regions)
                              \subseteq onap
                        /\ {"vnfm"} \X In(Vnfms) \subseteq onap
                        /\ config.model = "local" =>
                             instances[nsId].run = run /\ instances[nsId].by = run
    BY <1>1 DEF EndsExplained, CleanRunCompletes, IndInv
  <2>1. pc \in Finish
    BY <2>0 DEF Finish
  <2>2. /\ <<"complex", None>> \in onap /\ \A r \in In(Regions) : Placed(r)
        /\ <<"service", None>> \in onap /\ <<"customer", None>> \in onap
        /\ <<"subscription", None>> \in onap
        /\ \A r \in In(Regions) : <<"tenant", r>> \in onap
        /\ \A v \in In(Vnfms) : <<"vnfm", v>> \in onap
        /\ config.model = "local" =>
             instances[nsId].run = run /\ instances[nsId].by = run
    BY <2>0, <2>1 DEF CleanInv, RegionPart, SubscriptionPart, VnfmPart, EndPart
  <2>3. \A k \in {"cloud", "located", "multicloud", "tenant"}, r \in In(Regions) :
          <<k, r>> \in onap
    BY <2>2 DEF Placed
  <2>4. {"cloud", "located", "multicloud", "tenant"} \X In(Regions) \subseteq onap
    BY <2>3
  <2>5. {"vnfm"} \X In(Vnfms) \subseteq onap
    BY <2>2
  <2> QED
    BY <2>2, <2>4, <2>5
<1> QED
  BY <1>2, CleanInvariance, PTL
=============================================================================
