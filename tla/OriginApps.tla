----------------------------- MODULE OriginApps -----------------------------
(***************************************************************************)
(* conu/backend/origin/backend.py: one OpenshiftBackend that deploys apps  *)
(* with the oc command, waits for their services and deletes them.  The    *)
(* project it works with is kept in self.project, in the argument of the   *)
(* call and in the configuration of oc, and the three may differ: oc       *)
(* import-image and oc delete use oc's own, oc new-app the argument, and   *)
(* the checks self.project.  A command that is killed by a signal counts   *)
(* as a success (run_cmd looks for positive return codes only).            *)
(***************************************************************************)
EXTENDS Integers, FiniteSets

CONSTANTS
  Projects,   \* projects of the cluster
  None,       \* Python's None, for a project that is not given
  Apps,       \* names of apps
  MaxSwitch   \* bound: how often somebody calls "oc project"

ASSUME OriginAssumption ==
  /\ None \notin Projects
  /\ MaxSwitch \in Nat

Kinds == {"image", "source", "template"}  \* deploy_image,
                  \* create_new_app_from_source, create_app_from_template
Tries == 2        \* Probe(count=2) looks at two results, and starts a third
                  \* process before it gives up

VARIABLES
  project,  \* self.project
  current,  \* the project that oc is configured for
  switches, \* how often this has changed
  streams,  \* the projects in which the image stream of the app was imported
  home,     \* the project each app is in, or None
  service,  \* what the service of each app does: "none" (it does not
            \* exist), "closed", "wrong" (answers something else than what is
            \* expected) or "right"
  pc,       \* "idle", "import", "new-app", "build", or "wait"
  call,     \* the latest call: its kind, app, project and output, if it
            \* expects one
  tries,    \* how often oc start-build has failed in this call
  outcome,  \* how the last call ended: "none", "returned" or "raised", or
            \* by a "TypeError"
  known,    \* history: the apps that calls other than create_app_from_
            \* template have returned, and that were not cleaned since
  killed    \* history: the apps of which oc new-app was killed

clusterVars == <<streams, home, service, current, switches>>
callVars == <<pc, call, tries>>
vars == <<project, clusterVars, callVars, outcome, known, killed>>

TypeOK ==
  /\ project \in Projects \cup {None}
  /\ current \in Projects
  /\ switches \in 0..MaxSwitch
  /\ streams \subseteq Projects
  /\ home \in [Apps -> Projects \cup {None}]
  /\ service \in [Apps -> {"none", "closed", "wrong", "right"}]
  /\ pc \in {"idle", "import", "new-app", "build", "wait"}
  /\ call \in [kind : Kinds \cup {"wait", "clean"}, app : Apps,
               project : Projects \cup {None}, expects : BOOLEAN]
  /\ tries \in 0..Tries
  /\ outcome \in {"none", "returned", "raised", "TypeError"}
  /\ known \subseteq Apps /\ killed \subseteq Apps

Init ==
  /\ project \in Projects \cup {None}
  /\ current \in Projects
  /\ switches = 0
  /\ streams = {}
  /\ home = [a \in Apps |-> None]
  /\ service = [a \in Apps |-> "none"]
  /\ pc = "idle"
  /\ call \in [kind : {"wait"}, app : Apps, project : {None},
               expects : {FALSE}]
  /\ tries = 0
  /\ outcome = "none"
  /\ known = {} /\ killed = {}

Returns == pc' = "idle" /\ outcome' = "returned"
Raises == pc' = "idle" /\ outcome' = "raised"

-----------------------------------------------------------------------------
(* Deploying an app.                                                       *)

(* Faulty variant: a project that was chosen once is kept.                 *)
ChooseProjectOnce(p) ==
  project' = IF project # None THEN project
             ELSE IF p # None THEN p ELSE current

(* self.project = project or self.get_current_project()                    *)
ChooseProject(p) == project' = IF p # None THEN p ELSE current

(* What the three ways to deploy begin with; the name of the app is new    *)
(* unless the caller chose it.                                             *)
Deploy(kind, a, p) ==
  /\ pc = "idle"
  /\ ChooseProject(p)
  /\ pc' = "import"
  /\ call' = [kind |-> kind, app |-> a, project |-> p, expects |-> FALSE]
  /\ tries' = 0 /\ outcome' = "none"
  /\ UNCHANGED <<clusterVars, known, killed>>

DeployImage(a, p) == Deploy("image", a, p)
CreateNewAppFromSource(a, p) == Deploy("source", a, p)
CreateAppFromTemplate(a, p) == Deploy("template", a, p)

(* "oc project -q" fails; or a project was given, and taken, and then oc   *)
(* import-image finds no oc.  Nothing has happened in the cluster.         *)
DeployRefused(p) ==
  /\ pc = "idle" /\ outcome' = "raised"
  /\ project' = IF p # None THEN p ELSE project
  /\ UNCHANGED <<clusterVars, callVars, known, killed>>

(* oc import-image goes to oc's own project, and its status is ignored.    *)
ImportImage ==
  /\ pc = "import"
  /\ \/ streams' = streams \cup {current}
     \/ UNCHANGED streams
  /\ pc' = "new-app"
  /\ UNCHANGED <<project, home, service, current, switches, call, tries,
                 outcome, known, killed>>

(* The command line cannot be joined when the project is None.             *)
NewAppWithoutProject ==
  /\ pc = "new-app" /\ call.project = None
  /\ pc' = "idle" /\ outcome' = "TypeError"
  /\ UNCHANGED <<project, clusterVars, call, tries, known, killed>>

(* oc new-app is over, as far as conu knows.  A source that is a local     *)
(* directory is built next.                                                *)
Created ==
  \/ /\ call.kind = "source" /\ pc' = "build"
     /\ UNCHANGED <<outcome, known>>
  \/ /\ Returns
     /\ known' = IF call.kind = "template" THEN known
                                           ELSE known \cup {call.app}

NewApp ==
  /\ pc = "new-app" /\ call.project # None /\ home[call.app] = None
  /\ home' = [home EXCEPT ![call.app] = call.project]
  /\ \E new \in {"none", "closed"} :  \* images may expose no port
       service' = [service EXCEPT ![call.app] = new]
  /\ killed' = killed \ {call.app}
  /\ Created
  /\ UNCHANGED <<project, streams, current, switches, call, tries>>

NewAppKilled ==
  /\ pc = "new-app" /\ call.project # None
  /\ killed' = killed \cup {call.app}
  /\ Created
  /\ UNCHANGED <<project, clusterVars, call, tries>>

(* oc new-app fails, perhaps because the app exists;                       *)
(* create_app_from_template ignores that.                                  *)
NewAppFails ==
  /\ pc = "new-app" /\ call.project # None
  /\ IF call.kind = "template" THEN Returns ELSE Raises
  /\ UNCHANGED <<project, clusterVars, call, tries, known, killed>>

-----------------------------------------------------------------------------
(* start_build: oc in a Probe with count=2 and expected_retval=None, which *)
(* is what run_cmd returns if oc does not fail.                            *)

BuildReturns == Returns /\ known' = known \cup {call.app}

Build ==
  /\ pc = "build" /\ home[call.app] = call.project
  /\ BuildReturns
  /\ UNCHANGED <<project, clusterVars, call, tries, killed>>

BuildKilled ==
  /\ pc = "build"
  /\ BuildReturns
  /\ UNCHANGED <<project, clusterVars, call, tries, killed>>

(* Faulty variant: the tries are not counted.                              *)
BuildFailsForever ==
  /\ pc = "build" /\ tries < Tries
  /\ tries' = 1 - tries
  /\ UNCHANGED <<project, clusterVars, pc, call, outcome, known, killed>>

(* A CalledProcessError is expected.  After the second one the Probe has   *)
(* started a third process when it looks at the count: it terminates that  *)
(* without reading its answer and raises CountExceeded, which start_build  *)
(* does not catch.  (The oc that this process may have started is left to  *)
(* itself and may yet build the app: builds have no state here.)           *)
BuildFails ==
  /\ pc = "build" /\ tries < Tries
  /\ tries' = tries + 1
  /\ IF tries' < Tries
       THEN UNCHANGED <<pc, outcome>>
       ELSE Raises
  /\ UNCHANGED <<project, clusterVars, call, known, killed>>

-----------------------------------------------------------------------------
(* Waiting for the service, and deleting.                                  *)

StartWait(a, expects) ==
  /\ pc = "idle"
  /\ pc' = "wait" /\ outcome' = "none"
  /\ call' = [kind |-> "wait", app |-> a, project |-> None,
              expects |-> expects]
  /\ UNCHANGED <<project, clusterVars, tries, known, killed>>

(* request_service: the services of self.project, then a request or just a *)
(* connection.  What it returns, or how it raises.                         *)
Request(a) ==
  IF home[a] = None \/ home[a] # project \/ service[a] = "none"
    THEN "IndexError"
  ELSE IF service[a] = "closed" THEN "False"
  ELSE IF call.expects /\ service[a] = "wrong" THEN "ConuException"
  ELSE "True"

(* One poll of wait_for_service that does not return False.                *)
WaitPoll ==
  /\ pc = "wait" /\ Request(call.app) # "False"
  /\ IF Request(call.app) = "True" THEN Returns ELSE Raises
  /\ UNCHANGED <<project, clusterVars, call, tries, known, killed>>

WaitTimeout ==
  /\ pc = "wait" /\ Raises
  /\ UNCHANGED <<project, clusterVars, call, tries, known, killed>>

(* clean_project with the name of an app: "oc delete all" in the project   *)
(* that oc is configured for, if it is not killed.  With delete_all=True,  *)
(* and when oc fails, it raises and deletes nothing.                       *)
CleanProject(a) ==
  /\ pc = "idle"
  /\ \/ /\ home[a] = current
        /\ home' = [home EXCEPT ![a] = None]
        /\ service' = [service EXCEPT ![a] = "none"]
     \/ UNCHANGED <<home, service>>
  /\ known' = known \ {a}
  /\ outcome' = "returned"
  /\ call' = [kind |-> "clean", app |-> a, project |-> None, expects |-> FALSE]
  /\ UNCHANGED <<project, streams, current, switches, pc, tries, killed>>

CleanProjectRaises ==
  /\ pc = "idle" /\ outcome' = "raised"
  /\ UNCHANGED <<project, clusterVars, callVars, known, killed>>

-----------------------------------------------------------------------------
(* The cluster, and other users of oc on this host.                        *)

ServiceChanges ==
  /\ \E a \in Apps, new \in {"closed", "wrong", "right"} :
       /\ home[a] # None /\ service[a] # "none"
       /\ service' = [service EXCEPT ![a] = new]
  /\ UNCHANGED <<project, streams, home, current, switches, callVars, outcome,
                 known, killed>>

SwitchProject ==
  /\ switches < MaxSwitch /\ switches' = switches + 1
  /\ \E p \in Projects \ {current} : current' = p
  /\ UNCHANGED <<project, streams, home, service, callVars, outcome, known,
                 killed>>

Next ==
  \/ \E a \in Apps, p \in Projects \cup {None} :
       \/ DeployImage(a, p)
       \/ CreateNewAppFromSource(a, p)
       \/ CreateAppFromTemplate(a, p)
  \/ \E p \in Projects \cup {None} : DeployRefused(p)
  \/ ImportImage
  \/ NewAppWithoutProject \/ NewApp \/ NewAppKilled \/ NewAppFails
  \/ Build \/ BuildKilled \/ BuildFails
  \/ \E a \in Apps, expects \in BOOLEAN : StartWait(a, expects)
  \/ WaitPoll \/ WaitTimeout
  \/ \E a \in Apps : CleanProject(a)
  \/ CleanProjectRaises
  \/ ServiceChanges \/ SwitchProject

(* What conu does next in a running call.                                  *)
Continue ==
  \/ ImportImage
  \/ NewAppWithoutProject \/ NewApp \/ NewAppKilled \/ NewAppFails
  \/ Build \/ BuildKilled \/ BuildFails
  \/ WaitPoll

(* The commands that conu runs end, and time passes.                       *)
Spec == Init /\ [][Next]_vars /\ WF_vars(Continue) /\ WF_vars(WaitTimeout)

-----------------------------------------------------------------------------

(* When deploy_image or create_new_app_from_source has returned, the app   *)
(* is in self.project, where request_service and all_pods_are_ready look   *)
(* for it, whatever the backend has worked with before, unless oc new-app  *)
(* was killed (lines 90-147; "One instance of OpenshiftBackend should work *)
(* with just one project at time", lines 39-40).  The image stream may be  *)
(* elsewhere: in oc's own project.                                         *)
AppIsWhereChecksLook ==
  /\ pc = "idle" /\ outcome = "returned"
  /\ call.kind \in {"image", "source"} /\ call.app \in known
  => home[call.app] = project \/ call.app \in killed

(* Every call ends: a build that keeps failing and a service that never    *)
(* opens are given up (lines 209 and 302).                                 *)
CallsEnd == pc # "idle" ~> pc = "idle"

=============================================================================
