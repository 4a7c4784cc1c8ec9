---------------------------- MODULE MCK8sBackend ----------------------------
(* A pod, a service, and a deployment with two generations of pods, in the *)
(* namespaces of two backends or next to them.                             *)
EXTENDS K8sBackend

CONSTANTS p, d

PodOwner == [o \in Pods |-> IF o = p THEN NoOwner ELSE d]

PassingCleanups == {{"EVERYTHING"}, {"NAMESPACES"}, {"PODS", "DEPLOYMENTS"}}

=============================================================================
