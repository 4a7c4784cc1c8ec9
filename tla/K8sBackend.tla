----------------------------- MODULE K8sBackend -----------------------------
(***************************************************************************)
(* conu/backend/k8s/backend.py with pod.py, deployment.py and service.py:  *)
(* K8sBackend objects of several processes on one cluster.  Each of them   *)
(* remembers the namespaces it made, and __exit__ removes what its policy  *)
(* names by listing the objects of the whole cluster and deleting one      *)
(* after the other those in its namespaces.  Meanwhile the cluster ends    *)
(* pods, replaces them, and collects what a deleted owner leaves behind.   *)
(***************************************************************************)
EXTENDS Integers, Sequences, FiniteSets, SequencesExt

CONSTANTS
  Sessions,    \* K8sBackend objects, each in a process of its own
  Namespaces,  \* names create_namespace may come up with
  Outside,     \* a namespace that conu did not make
  Nowhere,     \* the namespace of an object that was never created
  Pods, Services, Deployments,  \* names of objects
  Nobody,      \* the maker of a namespace that conu did not make
  NoOwner,     \* the owner of a pod that was created by itself
  Owner,       \* the deployment whose pod it is, for each pod
  Unreadable,  \* services and deployments that others may create without
               \* ports or labels: Service and Deployment refuse these
  Cleanups,    \* the cleanup lists passed to the constructors, as sets
  MayFail,     \* TRUE if the API may refuse a deletion
  MayDrop      \* TRUE if the caller may delete a namespace itself

Objects == Pods \cup Services \cup Deployments
Spaces == Namespaces \cup {Outside}
Kinds == {"pods", "services", "deployments"}
Policies == {"NOTHING", "EVERYTHING", "NAMESPACES", "PODS", "SERVICES",
             "DEPLOYMENTS"}

ASSUME K8sAssumption ==
  /\ Outside \notin Namespaces /\ Nowhere \notin Spaces
  /\ Nobody \notin Sessions /\ NoOwner \notin Deployments
  /\ Owner \in [Pods -> Deployments \cup {NoOwner}]
  /\ Pods \cap Services = {} /\ Pods \cap Deployments = {}
  /\ Services \cap Deployments = {} /\ Objects \cap Namespaces = {}
  /\ Unreadable \subseteq Services \cup Deployments
  /\ Cleanups \subseteq SUBSET Policies
  /\ MayFail \in BOOLEAN /\ MayDrop \in BOOLEAN

VARIABLES
  pc,       \* "new", "open", "waiting" in create_namespace, "cleaning",
            \* "closed", or "raised" by __exit__
  policy,   \* self.cleanup
  managed,  \* self.managed_namespaces
  plan,     \* the cleanup methods that the running _clean has before it
  todo,     \* what the running cleanup method has before it
  space,    \* each namespace: "absent", "new", "ready" or "deleted"
  maker,    \* history: who made each namespace
  home,     \* the namespace of each object
  life      \* each object: "unborn", "alive", "dying" (a pod in its grace
            \* period) or "gone"

sessionVars == <<pc, policy, managed, plan, todo>>
clusterVars == <<space, maker, home, life>>
vars == <<sessionVars, clusterVars>>

TypeOK ==
  /\ pc \in [Sessions -> {"new", "open", "waiting", "cleaning", "closed",
                          "raised"}]
  /\ policy \in [Sessions -> SUBSET Policies]
  /\ managed \in [Sessions -> Seq(Namespaces)]
  /\ plan \in [Sessions -> Seq(Kinds \cup {"namespaces"})]
  /\ todo \in [Sessions -> SUBSET (Objects \cup Namespaces)]
  /\ space \in [Spaces -> {"absent", "new", "ready", "deleted"}]
  /\ maker \in [Spaces -> Sessions \cup {Nobody}]
  /\ home \in [Objects -> Spaces \cup {Nowhere}]
  /\ life \in [Objects -> {"unborn", "alive", "dying", "gone"}]

Init ==
  /\ pc = [s \in Sessions |-> "new"]
  /\ policy = [s \in Sessions |-> {}]
  /\ managed = [s \in Sessions |-> <<>>]
  /\ plan = [s \in Sessions |-> <<>>]
  /\ todo = [s \in Sessions |-> {}]
  /\ space = [n \in Spaces |-> IF n = Outside THEN "ready" ELSE "absent"]
  /\ maker = [n \in Spaces |-> Nobody]
  /\ home = [o \in Objects |-> Nowhere]
  /\ life = [o \in Objects |-> "unborn"]

Exists(o) == life[o] \in {"alive", "dying"}
Mine(s) == Range(managed[s])

-----------------------------------------------------------------------------
(* What the caller does with an open backend.                              *)

(* K8sBackend.__init__ *)
Construct(s, cleanup) ==
  LET wanted == IF cleanup = {} THEN {"NOTHING"} ELSE cleanup
  IN  /\ pc[s] = "new"
      /\ "NOTHING" \in wanted => wanted = {"NOTHING"}
      /\ policy' = [policy EXCEPT ![s] = wanted]
      /\ pc' = [pc EXCEPT ![s] = "open"]
      /\ UNCHANGED <<managed, plan, todo, clusterVars>>

(* Faulty variant: the name is remembered only if the Probe succeeds.      *)
CreateNamespaceLate(s, n) ==
  /\ pc[s] = "open" /\ space[n] = "absent"
  /\ space' = [space EXCEPT ![n] = "new"]
  /\ maker' = [maker EXCEPT ![n] = s]
  /\ \/ UNCHANGED managed
     \/ managed' = [managed EXCEPT ![s] = Append(@, n)]
  /\ pc' = [pc EXCEPT ![s] = "waiting"]
  /\ UNCHANGED <<policy, plan, todo, home, life>>

(* create_namespace up to its Probe; a refused call changes nothing.       *)
CreateNamespace(s, n) ==
  /\ pc[s] = "open" /\ space[n] = "absent"
  /\ space' = [space EXCEPT ![n] = "new"]
  /\ maker' = [maker EXCEPT ![n] = s]
  /\ managed' = [managed EXCEPT ![s] = Append(@, n)]
  /\ pc' = [pc EXCEPT ![s] = "waiting"]
  /\ UNCHANGED <<policy, plan, todo, home, life>>

(* The Probe ends: the namespace has its token, the 30 seconds are over,   *)
(* or _namespace_ready has raised.  The caller goes on either way.         *)
NamespaceWaitOver(s) ==
  /\ pc[s] = "waiting"
  /\ pc' = [pc EXCEPT ![s] = "open"]
  /\ UNCHANGED <<policy, managed, plan, todo, clusterVars>>

(* delete_namespace, called by the caller.                                 *)
DropNamespace(s, n) ==
  /\ MayDrop /\ pc[s] = "open" /\ n \in Mine(s)
  /\ space[n] \in {"new", "ready"}
  /\ space' = [space EXCEPT ![n] = "deleted"]
  /\ UNCHANGED <<sessionVars, maker, home, life>>

(* A new object in one of the backend's namespaces.                        *)
Create(s, o) ==
  /\ pc[s] = "open" /\ life[o] = "unborn"
  /\ \E n \in Mine(s) : /\ space[n] = "ready"
                        /\ home' = [home EXCEPT ![o] = n]
  /\ life' = [life EXCEPT ![o] = "alive"]
  /\ UNCHANGED <<sessionVars, space, maker>>

(* Pod(from_template), Service(create_in_cluster) and Deployment(create_   *)
(* in_cluster); a refused call changes nothing.                            *)
CreatePod(s, o) == o \in Pods /\ Owner[o] = NoOwner /\ Create(s, o)
CreateService(s, o) == o \in Services /\ Create(s, o)
CreateDeployment(s, o) == o \in Deployments /\ Create(s, o)

(* What deleting does to an object: a pod has its grace period.            *)
Deleted(o) == IF o \in Pods THEN "dying" ELSE "gone"

(* Pod.delete, Service.delete, Deployment.delete, called by the caller.    *)
DropObject(s, o) ==
  /\ pc[s] = "open" /\ Exists(o) /\ home[o] \in Mine(s)
  /\ life' = [life EXCEPT ![o] = Deleted(o)]
  /\ UNCHANGED <<sessionVars, space, maker, home>>

-----------------------------------------------------------------------------
(* __exit__ and _clean.                                                    *)

(* Does the policy of s ask for a cleanup of this kind?                    *)
Wants(s, k) ==
  \/ "EVERYTHING" \in policy[s]
  \/ k = "pods" /\ "PODS" \in policy[s]
  \/ k = "services" /\ "SERVICES" \in policy[s]
  \/ k = "deployments" /\ "DEPLOYMENTS" \in policy[s]

(* Faulty variants: each policy is an alternative to the one before it, or *)
(* deleting the pods is taken to be enough.                                *)
PlanFirst(s) ==
  IF "NAMESPACES" \in policy[s] THEN <<"namespaces">>
  ELSE IF Wants(s, "pods") THEN <<"pods">>
  ELSE SelectSeq(<<"services", "deployments">>, LAMBDA k : Wants(s, k))

PlanWithoutDeployments(s) ==
  IF "NAMESPACES" \in policy[s] THEN <<"namespaces">>
  ELSE SelectSeq(<<"pods", "services">>, LAMBDA k : Wants(s, k))

(* The cleanup methods that _clean calls, one after the other.             *)
Plan(s) ==
  LET If(k) == IF Wants(s, k) THEN <<k>> ELSE <<>>
  IN  IF "NAMESPACES" \in policy[s] THEN <<"namespaces">>
      ELSE If("pods") \o If("services") \o If("deployments")

StartClean(s) ==
  /\ pc[s] = "open"
  /\ pc' = [pc EXCEPT ![s] = "cleaning"]
  /\ plan' = [plan EXCEPT ![s] = Plan(s)]
  /\ UNCHANGED <<policy, managed, todo, clusterVars>>

Cleaning(s, kind) ==
  pc[s] = "cleaning" /\ todo[s] = {} /\ plan[s] # <<>> /\ Head(plan[s]) = kind

CleanRaises(s) ==
  /\ pc' = [pc EXCEPT ![s] = "raised"]
  /\ plan' = [plan EXCEPT ![s] = <<>>]
  /\ todo' = [todo EXCEPT ![s] = {}]
  /\ UNCHANGED <<policy, managed, clusterVars>>

OfKind(kind) ==
  CASE kind = "pods" -> Pods
    [] kind = "services" -> Services
    [] kind = "deployments" -> Deployments

(* Somebody else's objects that list_services cannot represent: no ports;  *)
(* and list_deployments: no labels.                                        *)
Odd(o) == o \in Unreadable /\ Exists(o) /\ home[o] = Outside
PortsMissing(o) == o \in Services /\ Odd(o)
LabelsMissing(o) == o \in Deployments /\ Odd(o)
Blocks(o) == PortsMissing(o) \/ LabelsMissing(o)

(* Faulty variant: the namespaces of the objects are not looked at.        *)
ListEverything(s, kind) ==
  /\ Cleaning(s, kind)
  /\ plan' = [plan EXCEPT ![s] = Tail(@)]
  /\ todo' = [todo EXCEPT ![s] = {o \in OfKind(kind) : Exists(o)}]
  /\ UNCHANGED <<pc, policy, managed, clusterVars>>

(* cleanup_pods, cleanup_services, cleanup_deployments: one call lists the *)
(* objects of the whole cluster, and an object that cannot be represented  *)
(* ends the cleanup, whoever's it is.                                      *)
ListObjects(s, kind) ==
  /\ Cleaning(s, kind)
  /\ \A o \in OfKind(kind) : ~Blocks(o)
  /\ plan' = [plan EXCEPT ![s] = Tail(@)]
  /\ todo' = [todo EXCEPT ![s] =
                {o \in OfKind(kind) : Exists(o) /\ home[o] \in Mine(s)}]
  /\ UNCHANGED <<pc, policy, managed, clusterVars>>

ListRaises(s, kind) ==
  /\ Cleaning(s, kind)
  /\ \/ MayFail
     \/ \E o \in OfKind(kind) : Blocks(o)
  /\ CleanRaises(s)

(* cleanup_namespaces goes through managed_namespaces.                     *)
ListNamespaces(s) ==
  /\ Cleaning(s, "namespaces")
  /\ plan' = [plan EXCEPT ![s] = Tail(@)]
  /\ todo' = [todo EXCEPT ![s] = Mine(s)]
  /\ UNCHANGED <<pc, policy, managed, clusterVars>>

DeleteObject(s, o) ==
  /\ pc[s] = "cleaning" /\ o \in todo[s] \cap Objects
  /\ IF Exists(o)
       THEN /\ todo' = [todo EXCEPT ![s] = @ \ {o}]
            /\ life' = [life EXCEPT ![o] = Deleted(o)]
            /\ UNCHANGED <<pc, policy, managed, plan, space, maker, home>>
       ELSE CleanRaises(s)

(* The namespaces are deleted in the order in which they were made.        *)
DeleteNamespace(s) ==
  /\ pc[s] = "cleaning"
  /\ \E i \in DOMAIN managed[s] :
       LET n == managed[s][i]
       IN  /\ n \in todo[s]
           /\ \A j \in 1..(i - 1) : managed[s][j] \notin todo[s]
           /\ IF space[n] \in {"new", "ready"}
                THEN /\ todo' = [todo EXCEPT ![s] = @ \ {n}]
                     /\ space' = [space EXCEPT ![n] = "deleted"]
                     /\ UNCHANGED <<pc, policy, managed, plan, maker, home,
                                    life>>
                ELSE CleanRaises(s)

DeleteRefused(s) ==
  MayFail /\ pc[s] = "cleaning" /\ todo[s] # {} /\ CleanRaises(s)

CleanDone(s) ==
  /\ pc[s] = "cleaning" /\ todo[s] = {} /\ plan[s] = <<>>
  /\ pc' = [pc EXCEPT ![s] = "closed"]
  /\ UNCHANGED <<policy, managed, plan, todo, clusterVars>>

-----------------------------------------------------------------------------
(* The cluster and its other users.                                        *)

(* A new namespace gets the token of its service account.                  *)
TokenAppears(n) ==
  /\ space[n] = "new"
  /\ space' = [space EXCEPT ![n] = "ready"]
  /\ UNCHANGED <<sessionVars, maker, home, life>>

(* A deployment makes a pod when it has none; names are not used again.    *)
Replicate(o) ==
  /\ o \in Pods /\ Owner[o] # NoOwner /\ life[o] = "unborn"
  /\ life[Owner[o]] = "alive" /\ space[home[Owner[o]]] = "ready"
  /\ \A p \in Pods : Owner[p] = Owner[o] => life[p] # "alive"
  /\ home' = [home EXCEPT ![o] = home[Owner[o]]]
  /\ life' = [life EXCEPT ![o] = "alive"]
  /\ UNCHANGED <<sessionVars, space, maker>>

(* A grace period is over; what belongs to a deleted deployment or to a    *)
(* deleted namespace is collected.                                         *)
Collect(o) ==
  /\ Exists(o)
  /\ \/ life[o] = "dying"
     \/ o \in Pods /\ Owner[o] # NoOwner /\ life[Owner[o]] = "gone"
     \/ space[home[o]] = "deleted"
  /\ life' = [life EXCEPT ![o] = "gone"]
  /\ UNCHANGED <<sessionVars, space, maker, home>>

CreateOutside(o) ==
  /\ life[o] = "unborn"
  /\ o \in Pods => Owner[o] = NoOwner
  /\ home' = [home EXCEPT ![o] = Outside]
  /\ life' = [life EXCEPT ![o] = "alive"]
  /\ UNCHANGED <<sessionVars, space, maker>>

-----------------------------------------------------------------------------

Call(s) ==
  \/ \E cleanup \in Cleanups : Construct(s, cleanup)
  \/ \E n \in Namespaces : CreateNamespace(s, n) \/ DropNamespace(s, n)
  \/ NamespaceWaitOver(s)
  \/ \E o \in Objects : \/ CreatePod(s, o) \/ CreateService(s, o)
                       \/ CreateDeployment(s, o) \/ DropObject(s, o)

Clean(s) ==
  \/ StartClean(s)
  \/ \E kind \in Kinds : ListObjects(s, kind) \/ ListRaises(s, kind)
  \/ ListNamespaces(s)
  \/ \E o \in Objects : DeleteObject(s, o)
  \/ DeleteNamespace(s)
  \/ DeleteRefused(s)
  \/ CleanDone(s)

Cluster ==
  \/ \E n \in Namespaces : TokenAppears(n)
  \/ \E o \in Objects : Replicate(o) \/ Collect(o) \/ CreateOutside(o)

Next == (\E s \in Sessions : Call(s) \/ Clean(s)) \/ Cluster

(* The cluster's controllers keep working; callers need not.               *)
Fairness == \A o \in Objects : WF_vars(Collect(o))

Spec == Init /\ [][Next]_vars /\ Fairness

-----------------------------------------------------------------------------

(* Whatever the cleanup of a session is about to delete is in a namespace  *)
(* that this session made: never a stranger's object, never one of another *)
(* session's (cleanup_pods, cleanup_services, cleanup_deployments, which   *)
(* list the whole cluster).                                                *)
OnlyItsOwnIsDeleted ==
  \A s \in Sessions :
    /\ \A o \in todo[s] \cap Objects : maker[home[o]] = s
    /\ \A n \in todo[s] \cap Namespaces : maker[n] = s

(* After an __exit__ with the NAMESPACES policy that raised nothing, every *)
(* namespace this backend ever made is deleted, also one that create_      *)
(* namespace gave up waiting for.                                          *)
QuietExitDropsNamespaces ==
  \A s \in Sessions, n \in Namespaces :
    pc[s] = "closed" /\ "NAMESPACES" \in policy[s] /\ maker[n] = s
      => space[n] = "deleted"

(* After a quiet __exit__ nothing of a kind that the policy names is left  *)
(* alive in the backend's namespaces, except for pods that a deployment    *)
(* made after the pods were listed.                                        *)
QuietExitIsThorough ==
  \A s \in Sessions, k \in Kinds, o \in Objects :
    /\ pc[s] = "closed" /\ "NAMESPACES" \notin policy[s] /\ Wants(s, k)
    /\ o \in OfKind(k) /\ life[o] = "alive" /\ maker[home[o]] = s
    => k = "pods" /\ Owner[o] # NoOwner

(* With EVERYTHING these pods die out as well, because the deployments are *)
(* deleted last and the cluster collects what they leave behind.           *)
PodsDieOut ==
  \A s \in Sessions :
    pc[s] = "closed" /\ "EVERYTHING" \in policy[s]
      ~> \A o \in Pods : Exists(o) => maker[home[o]] # s

=============================================================================
