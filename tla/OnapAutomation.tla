--------------------------- MODULE OnapAutomation ---------------------------
(***************************************************************************)
(* cloud/onap/cli/hpa_automation.py: the script that brings up the HPA use *)
(* case on an ONAP installation, run and rerun by an operator.             *)
(*                                                                         *)
(* The script is one long sequence of commands.  A command run with        *)
(* os.system may fail and nobody looks; the answer of one run with         *)
(* os.popen is split into words and a word of it taken for an id: when     *)
(* there are too few words the script stops with an IndexError, and when   *)
(* they are the words of an error it goes on with one of them; a request   *)
(* and a database call may raise.  The operator may kill the script        *)
(* between any two commands and start it again.  What the script has put   *)
(* into ONAP stays.                                                        *)
(*                                                                         *)
(* ONAP itself is not in the repository.  A command is taken to have its   *)
(* effect, or none, and to be refused when it names an object that is not  *)
(* there.  The commands that create and push policies may do nothing at    *)
(* all: the script says of add_policies that it does not currently work.   *)
(***************************************************************************)
EXTENDS Naturals, Sequences

CONSTANTS
    Regions,    \* parameters["cloud_region_data"], in the order of the dict
    Vnfms,      \* parameters["vnfm_params"]
    Vnfs,       \* parameters["vnfs"]
    Policies,   \* os.listdir(parameters["policy_directory"])
    None,       \* no value yet
    MaxRuns,    \* bound: how often the script is started
    MaxFaults   \* bound: how many failures outside it happen, in all runs

In(seq) == {seq[i] : i \in 1..Len(seq)}

ASSUME ConfigAssumption ==
    /\ Regions \in Seq(In(Regions)) \ {<<>>}
    /\ Vnfms \in Seq(In(Vnfms)) \ {<<>>}
    /\ Policies \in Seq(In(Policies)) \ {<<>>}
    /\ Vnfs \in Seq(In(Vnfs)) \ {<<>>}
ASSUME BoundAssumption == MaxRuns \in Nat /\ MaxFaults \in Nat
ASSUME NoneAssumption == None \notin Nat /\ None \notin In(Vnfs)

VARIABLES
    (* the script *)
    pc,         \* the command it is about to run, or how it ended
    todo,       \* what is left of the loop it is in
    config,     \* -t and the vnfs of the configuration file
    first,      \* subscription_check = 0
    vnfPkg,     \* vnf_package_output
    nsPkg,      \* ns_package_output: None stands for ""
    nsId,       \* ns_instance_id
    (* ONAP *)
    onap,       \* the objects of A&AI, multicloud and policy, <<kind, name>>
    packages,   \* packages of the VF-C catalog, by id
    instances,  \* network service instances of VF-C, by id
    db,         \* which runs' rows each table of policydb holds
    pending,    \* the tables the open transaction has written
    (* history *)
    run,        \* the number of this run
    fault,      \* something outside the script has failed in this run
    faults      \* how many such failures there were in all

script == <<pc, todo, config, first, vnfPkg, nsPkg, nsId>>
vfc == <<packages, instances>>
sql == <<db, pending>>
history == <<run, fault, faults>>
vars == <<script, onap, vfc, sql, history>>

Stopped == {"idle", "done", "error", "killed"}
Table == {"optimizationmodels", "microservicemodels"}

TypeOK ==
    /\ pc \in Stopped \cup
         {"complex", "cloud", "associate", "multicloud", "service_type",
          "customer", "subscription", "vnfm", "onboard_vnf", "onboard_ns",
          "create_vnf", "create_ns_package", "upload_vnf", "upload_ns",
          "hpa_sql", "sql", "commit", "policy_create", "policy_push",
          "create_ns", "instantiate_ns"}
    /\ todo \in Seq(In(Regions) \cup In(Vnfms) \cup In(Vnfs) \cup In(Policies))
    /\ config \in [model : {"sdc", "local"}, vnfs : {<<>>, Vnfs}]
    /\ first \in BOOLEAN
    /\ vnfPkg \in [In(Vnfs) -> Nat \cup {None}]
    /\ nsPkg \in Nat \cup {None}
    /\ nsId \in Nat \cup {None}
    /\ packages \in Seq([of : In(Vnfs) \cup {"ns"}, run : 1..MaxRuns,
                         content : In(Vnfs) \cup {"ns", "empty"}])
    /\ instances \in Seq([csar : Nat, run : 1..MaxRuns,
                          vnfs : {<<>>, Vnfs}, sound : BOOLEAN,
                          by : 0..MaxRuns])
    /\ db \in [Table -> SUBSET (1..MaxRuns)]
    /\ pending \in SUBSET Table
    /\ run \in 0..MaxRuns
    /\ fault \in BOOLEAN /\ faults \in 0..MaxFaults

Init ==
    /\ pc = "idle" /\ todo = <<>>
    /\ config = [model |-> "local", vnfs |-> Vnfs]
    /\ first = TRUE
    /\ vnfPkg = [v \in In(Vnfs) |-> None] /\ nsPkg = None /\ nsId = None
    /\ onap = {} /\ packages = <<>> /\ instances = <<>>
    /\ db = [t \in Table |-> {}] /\ pending = {}
    /\ run = 0 /\ fault = FALSE /\ faults = 0

(***************************************************************************)
(* Control                                                                 *)
(***************************************************************************)

(* The script goes on to command l, which begins a loop over items.        *)
Goto(l, items) == pc' = l /\ todo' = items

(* One more command for the current item; the next item, or what follows   *)
(* the loop.                                                               *)
Same(l) == Goto(l, todo)

NextItem(l, after, items) ==
    IF Len(todo) > 1 THEN Goto(l, Tail(todo)) ELSE Goto(after, items)

(* A loop over nothing is skipped.  Only the VNFs may be missing: both     *)
(* configuration files name regions and a VNF manager.                     *)
Skip(l, after, items) ==
    /\ pc = l /\ todo = <<>>
    /\ Goto(after, items)
    /\ UNCHANGED <<config, first, vnfPkg, nsPkg, nsId, onap, vfc, sql,
                   history>>

(* Something outside the script fails, or nothing does.                    *)
Fault == /\ faults < MaxFaults
         /\ faults' = faults + 1 /\ fault' = TRUE
NoFault == UNCHANGED <<fault, faults>>

(* An uncaught exception ends the script, and the connection to the        *)
(* database with it: what was not committed is rolled back.                *)
Raise == pc' = "error" /\ todo' = <<>> /\ pending' = {} /\ UNCHANGED db

(* os.system: the objects made are there afterwards, or not; the status is *)
(* not looked at.                                                          *)
System(made, needs) ==
    /\ \/ /\ onap' = IF needs \subseteq onap THEN onap \cup made ELSE onap
          /\ NoFault
       \/ UNCHANGED onap /\ Fault
    /\ UNCHANGED <<config, vnfPkg, nsPkg, nsId, vfc, sql, run>>

(* The operator starts the script, with either value of -t.                *)
Start ==
    /\ pc \in Stopped /\ run < MaxRuns
    /\ Goto("complex", <<>>)
    /\ \E m \in {"sdc", "local"}, vs \in {<<>>, Vnfs} :
         config' = [model |-> m, vnfs |-> vs]
    /\ first' = TRUE
    /\ vnfPkg' = [v \in In(Vnfs) |-> None] /\ nsPkg' = None /\ nsId' = None
    /\ run' = run + 1 /\ fault' = FALSE /\ UNCHANGED faults
    /\ UNCHANGED <<onap, vfc, sql>>

(* The operator interrupts it, or its machine fails.                       *)
Kill ==
    /\ pc \notin Stopped
    /\ pc' = "killed" /\ todo' = <<>> /\ pending' = {}
    /\ UNCHANGED <<config, first, vnfPkg, nsPkg, nsId, onap, vfc, db,
                   history>>

(***************************************************************************)
(* Sections 2 to 4: A&AI and multicloud                                    *)
(***************************************************************************)
create_complex ==
    /\ pc = "complex" /\ System({<<"complex", None>>}, {})
    /\ Goto("cloud", Regions) /\ UNCHANGED first

(* register_all_clouds, and register_cloud_helper for each region.         *)
CloudCreate ==
    /\ pc = "cloud"
    /\ System({<<"cloud", Head(todo)>>}, {})
    /\ Same("associate") /\ UNCHANGED first

ComplexAssociate ==
    /\ pc = "associate"
    /\ System({<<"located", Head(todo)>>},
              {<<"complex", None>>, <<"cloud", Head(todo)>>})
    /\ Same("multicloud") /\ UNCHANGED first

MulticloudRegister ==
    /\ pc = "multicloud"
    /\ System({<<"multicloud", Head(todo)>>}, {<<"cloud", Head(todo)>>})
    /\ NextItem("cloud", "service_type", <<>>) /\ UNCHANGED first

create_service_type ==
    /\ pc = "service_type" /\ System({<<"service", None>>}, {})
    /\ Goto("customer", <<>>) /\ UNCHANGED first

create_customer ==
    /\ pc = "customer" /\ System({<<"customer", None>>}, {})
    /\ Goto("subscription", Regions) /\ UNCHANGED first

(* The first region comes with the subscription, the others are added to   *)
(* it.  A subscription that is there already is not created again, and its *)
(* regions stay what they were.                                            *)
Subscribe(r) ==
    IF first
    THEN System(IF <<"subscription", None>> \in onap THEN {}
                ELSE {<<"subscription", None>>, <<"tenant", r>>},
                {<<"customer", None>>, <<"service", None>>, <<"cloud", r>>})
    ELSE System({<<"tenant", r>>},
                {<<"subscription", None>>, <<"cloud", r>>})

add_customer_subscriptionNoCount ==
    /\ pc = "subscription"
    /\ Subscribe(Head(todo))
    /\ first' = first
    /\ NextItem("subscription", "vnfm", Vnfms)

add_customer_subscription ==
    /\ pc = "subscription"
    /\ Subscribe(Head(todo))
    /\ first' = FALSE
    /\ NextItem("subscription", "vnfm", Vnfms)

(* What comes after the VNF managers depends on -t.                        *)
Branch == IF config.model = "sdc" THEN "onboard_vnf" ELSE "create_vnf"

register_vnfm ==
    /\ pc = "vnfm"
    /\ System({<<"vnfm", Head(todo)>>}, {})
    /\ NextItem("vnfm", Branch, config.vnfs) /\ UNCHANGED first

(***************************************************************************)
(* Section 5: packages                                                     *)
(***************************************************************************)
(* The commands of this section leave A&AI alone, and the open transaction *)
(* is empty.                                                               *)
Outside == UNCHANGED <<config, first, onap, run>>

(* onboard_vnf uses two names it does not define, vnf_onboard_outs and     *)
(* ns_onboard_string: the first VNF raises a NameError.                    *)
onboard_vnf ==
    \/ Skip("onboard_vnf", "onboard_ns", <<>>)
    \/ /\ pc = "onboard_vnf" /\ todo # <<>>
       /\ Raise /\ Outside
       /\ NoFault /\ UNCHANGED <<vnfPkg, nsPkg, nsId, vfc>>

(* The answer is printed; ns_package_output stays "".                      *)
onboard_ns ==
    /\ pc = "onboard_ns"
    /\ \/ /\ packages' = Append(packages, [of |-> "ns", run |-> run,
                                           content |-> "ns"])
          /\ NoFault
       \/ UNCHANGED packages /\ Fault
    /\ Goto("hpa_sql", <<>>) /\ Outside
    /\ UNCHANGED <<vnfPkg, nsPkg, nsId, instances, sql>>

(* What an answer that is the text of an error gives for an id: a word     *)
(* that names no package and no service.                                   *)
ErrorWord == 0

(* A package is made and its id is the fifth word of the answer; or the    *)
(* answer is lost or an error, whether or not the package was made.        *)
CreatePackage(x, id) ==
    LET made == Append(packages, [of |-> x, run |-> run, content |-> "empty"])
    IN \/ packages' = made /\ id = Len(packages) + 1 /\ NoFault
       \/ packages' \in {packages, made} /\ id = ErrorWord /\ Fault

(* out_list[4] raises when the answer has fewer than five words.           *)
create_vnf_package ==
    \/ /\ pc = "create_vnf" /\ todo # <<>>
       /\ \/ /\ \E id \in {Len(packages) + 1, ErrorWord} :
                  /\ CreatePackage(Head(todo), id)
                  /\ vnfPkg' = [vnfPkg EXCEPT ![Head(todo)] = id]
             /\ NextItem("create_vnf", "create_ns_package", <<>>)
             /\ UNCHANGED sql
          \/ CreatePackage(Head(todo), ErrorWord) /\ Raise /\ UNCHANGED vnfPkg
       /\ Outside /\ UNCHANGED <<nsPkg, nsId, instances>>
    \/ Skip("create_vnf", "create_ns_package", <<>>)

create_ns_package ==
    /\ pc = "create_ns_package"
    /\ \/ /\ \E id \in {Len(packages) + 1, ErrorWord} :
               CreatePackage("ns", id) /\ nsPkg' = id
          /\ Goto("upload_vnf", config.vnfs) /\ UNCHANGED sql
       \/ CreatePackage("ns", ErrorWord) /\ Raise /\ UNCHANGED nsPkg
    /\ Outside /\ UNCHANGED <<vnfPkg, nsId, instances>>

(* requests.put: the content is stored, or the request is refused, as it   *)
(* is when p names no package, and the status only printed, or the         *)
(* connection or open() raises.                                            *)
Put(p, x, next) ==
    \/ /\ packages' = IF p = ErrorWord THEN packages
                      ELSE [packages EXCEPT ![p].content = x]
       /\ next /\ NoFault /\ UNCHANGED sql
    \/ Fault /\ next /\ UNCHANGED <<packages, sql>>
    \/ Fault /\ Raise /\ UNCHANGED packages

upload_vnf_packageFirstOnly ==
    \/ /\ pc = "upload_vnf" /\ todo # <<>>
       /\ Put(vnfPkg[Head(todo)], Head(todo), Goto("upload_ns", <<>>))
       /\ Outside /\ UNCHANGED <<vnfPkg, nsPkg, nsId, instances>>
    \/ /\ pc = "upload_vnf" /\ todo = <<>>
       /\ Raise /\ Outside
       /\ NoFault /\ UNCHANGED <<vnfPkg, nsPkg, nsId, vfc>>

(* With no VNF there is no resp to return.                                 *)
upload_vnf_package ==
    \/ /\ pc = "upload_vnf" /\ todo # <<>>
       /\ Put(vnfPkg[Head(todo)], Head(todo),
              NextItem("upload_vnf", "upload_ns", <<>>))
       /\ Outside /\ UNCHANGED <<vnfPkg, nsPkg, nsId, instances>>
    \/ /\ pc = "upload_vnf" /\ todo = <<>>
       /\ Raise /\ Outside
       /\ NoFault /\ UNCHANGED <<vnfPkg, nsPkg, nsId, vfc>>

upload_ns_package ==
    /\ pc = "upload_ns"
    /\ Put(nsPkg, "ns", Goto("hpa_sql", <<>>))
    /\ Outside /\ UNCHANGED <<vnfPkg, nsPkg, nsId, instances>>

(***************************************************************************)
(* Section 6: policy models and policies                                   *)
(***************************************************************************)
DbFails ==
    /\ pc \in {"hpa_sql", "sql", "commit"}
    /\ Raise /\ Fault
    /\ Outside /\ UNCHANGED <<vnfPkg, nsPkg, nsId, vfc>>

InsertWrongTable(t) ==
    /\ pending' = pending \cup {"policymodels"}
    /\ Outside /\ UNCHANGED <<vnfPkg, nsPkg, nsId, vfc, db>>
    /\ NoFault

Insert(t) ==
    /\ pending' = pending \cup {t}
    /\ Outside /\ UNCHANGED <<vnfPkg, nsPkg, nsId, vfc, db>>
    /\ NoFault

InsertOptimization ==
    pc = "hpa_sql" /\ Insert("optimizationmodels") /\ Goto("sql", <<>>)

InsertMicroservice ==
    pc = "sql" /\ Insert("microservicemodels") /\ Goto("commit", <<>>)

(* The commit may have taken effect although its answer is lost.           *)
Commit ==
    /\ pc = "commit"
    /\ db' = [t \in Table |-> IF t \in pending THEN db[t] \cup {run} ELSE db[t]]
    /\ pending' = {}
    /\ \/ Goto("policy_create", Policies) /\ NoFault
       \/ Goto("error", <<>>) /\ Fault
    /\ Outside /\ UNCHANGED <<vnfPkg, nsPkg, nsId, vfc>>

(* add_policies: create and push each policy, whatever came of the create. *)
(* "Not currently working", so that neither need have its effect.          *)
Unreliable(made, needs) == System(made, needs) \/ System({}, {})

PolicyCreate ==
    /\ pc = "policy_create"
    /\ Unreliable({<<"policy", Head(todo)>>}, {})
    /\ Same("policy_push") /\ UNCHANGED first

PolicyPush ==
    /\ pc = "policy_push"
    /\ Unreliable({<<"pushed", Head(todo)>>}, {<<"policy", Head(todo)>>})
    /\ NextItem("policy_create", "create_ns", <<>>) /\ UNCHANGED first

(* os.listdir raises when the directory is not there.                      *)
ListdirFails ==
    /\ pc = "policy_create" /\ todo = Policies
    /\ Raise /\ Fault
    /\ Outside /\ UNCHANGED <<vnfPkg, nsPkg, nsId, vfc>>

(***************************************************************************)
(* Section 7: the network service                                          *)
(***************************************************************************)
NewInstance ==
    Append(instances, [csar |-> nsPkg, run |-> run, vnfs |-> config.vnfs,
                       sound |-> ~fault, by |-> 0])

(* The command needs the id of a package (-c is not optional): it is       *)
(* refused with ns_package_output still "", as -t sdc leaves it, and with  *)
(* a word that names none.  The id of the service is the fourth word of    *)
(* the answer.                                                             *)
Accepted == nsPkg \notin {None, ErrorWord}

CreateService(id) ==
    \/ Accepted /\ instances' = NewInstance /\ id = Len(instances) + 1 /\ NoFault
    \/ Accepted /\ instances' = NewInstance /\ id = ErrorWord /\ Fault
    \/ UNCHANGED instances /\ id = ErrorWord /\ (Fault \/ (~Accepted /\ NoFault))

create_nsRetries ==
    /\ pc = "create_ns"
    /\ \/ /\ CreateService(Len(instances) + 1) /\ nsId' = Len(instances) + 1
          /\ Goto("instantiate_ns", <<>>) /\ UNCHANGED sql
       \/ CreateService(ErrorWord) /\ UNCHANGED <<script, sql>>
    /\ Outside /\ UNCHANGED <<vnfPkg, nsPkg, packages>>

(* [3] raises when the answer has fewer than four words.                   *)
create_ns ==
    /\ pc = "create_ns"
    /\ \/ /\ \E id \in {Len(instances) + 1, ErrorWord} :
               CreateService(id) /\ nsId' = id
          /\ Goto("instantiate_ns", <<>>) /\ UNCHANGED sql
       \/ CreateService(ErrorWord) /\ Raise /\ UNCHANGED nsId
    /\ Outside /\ UNCHANGED <<vnfPkg, nsPkg, packages>>

(* The command on the service named id, which is refused when there is no  *)
(* such service; the answer is only printed.                               *)
Instantiate(id) ==
    /\ pc = "instantiate_ns"
    /\ \/ /\ instances' = IF nsId = ErrorWord THEN instances
                          ELSE [instances EXCEPT ![id].by = run]
          /\ NoFault
       \/ Fault /\ UNCHANGED instances
    /\ Goto("done", <<>>) /\ Outside
    /\ UNCHANGED <<vnfPkg, nsPkg, nsId, packages, sql>>

instantiate_nsFirst == Instantiate(1)

instantiate_ns == Instantiate(nsId)

Inventory ==
    \/ create_complex \/ CloudCreate \/ ComplexAssociate
    \/ MulticloudRegister \/ create_service_type \/ create_customer
    \/ add_customer_subscription \/ register_vnfm

Package ==
    \/ onboard_vnf \/ onboard_ns \/ create_vnf_package \/ create_ns_package
    \/ upload_vnf_package \/ upload_ns_package

Policy ==
    \/ DbFails \/ InsertOptimization \/ InsertMicroservice \/ Commit
    \/ PolicyCreate \/ PolicyPush \/ ListdirFails

Step == Inventory \/ Package \/ Policy \/ create_ns \/ instantiate_ns

Next == Start \/ Kill \/ Step

Spec == Init /\ [][Next]_vars

(***************************************************************************)
(* Properties                                                              *)
(***************************************************************************)

(* What the whole script is for: a run that reaches its end without a      *)
(* failure outside leaves everything in place, whatever the runs before it *)
(* left half done.  No command looks at what is there already, so this is  *)
(* about their order and about repeating them.  The policies are left out, *)
(* of which the script itself says that they do not work.  And the service *)
(* is there only with -t local: with -t sdc the script never has the id of *)
(* a package, and no run makes a service.                                  *)
CleanRunCompletes ==
    /\ (pc = "done" /\ ~fault) =>
         /\ {<<"complex", None>>, <<"service", None>>, <<"customer", None>>,
             <<"subscription", None>>} \subseteq onap
         /\ {"cloud", "located", "multicloud", "tenant"} \X In(Regions)
               \subseteq onap
         /\ {"vnfm"} \X In(Vnfms) \subseteq onap
         /\ config.model = "local" =>
              instances[nsId].run = run /\ instances[nsId].by = run
    /\ config.model = "sdc" => \A i \in In(instances) : i.run # run

(* -t local with VNFs only dies of a failure outside.  The other three may *)
(* die without one: -t sdc with VNFs always does (onboard_vnf names what   *)
(* is not defined), -t local without always does (upload_vnf_package has   *)
(* nothing to return), and -t sdc without has its service refused, and     *)
(* dies when the refusal has fewer than four words.                        *)
AbortsExplained ==
    (pc = "error" /\ ~fault) => ~(config.model = "local" /\ config.vnfs # <<>>)

(* What the end of a run means.                                            *)
EndsExplained == CleanRunCompletes /\ AbortsExplained

(* A package holds nothing or the CSAR of what it was made for: the dict   *)
(* create_vnf_package returns keeps the ids of the VNFs apart.             *)
ContentMatches == \A p \in In(packages) : p.content \in {"empty", p.of}

(* A service is made from the package of its own run, never from one a     *)
(* killed run left behind; if nothing had failed by then, that package and *)
(* one of every VNF have their content.                                    *)
ServicePackages ==
    \A i \in In(instances) :
      /\ i.csar \in 1..Len(packages)
      /\ packages[i.csar].of = "ns" /\ packages[i.csar].run = i.run
      /\ i.sound =>
           /\ packages[i.csar].content = "ns"
           /\ \A v \in In(i.vnfs) :
                \E p \in In(packages) :
                  p.of = v /\ p.run = i.run /\ p.content = v

(* Nothing gets into the wrong package or the wrong service.               *)
OwnPackages == ContentMatches /\ ServicePackages

(* The state of the script as Deployment sees it: half of the models, or   *)
(* services that differ, would be nothing Deployment knows.                *)
Recorded(r) ==
    IF \A t \in Table : r \in db[t] THEN "all"
    ELSE IF \A t \in Table : r \notin db[t] THEN "none" ELSE "half"

Made(r) == {i \in 1..Len(instances) : instances[i].run = r}

Service(r) ==
    IF Made(r) = {} THEN "none"
    ELSE IF \A i \in Made(r) : instances[i].by = 0 THEN "created"
    ELSE IF \A i \in Made(r) : instances[i].by = r THEN "instantiated"
    ELSE "mixed"

Models == [r \in 1..MaxRuns |-> Recorded(r)]
Services == [r \in 1..MaxRuns |-> Service(r)]

D == INSTANCE Deployment WITH models <- Models, service <- Services

(* The script keeps the order and the unity Deployment promises, although  *)
(* it never looks at what is there, may be killed between any two of its   *)
(* commands, and may not learn of a commit or a creation that worked.      *)
ImplementsDeployment == D!Spec

=============================================================================
