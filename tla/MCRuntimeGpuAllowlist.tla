----------------------- MODULE MCRuntimeGpuAllowlist -----------------------
(* A node with two GPUs, a second node that comes and goes, two trials.    *)
EXTENDS RuntimeGpuAllowlist, TLC

CONSTANTS n1, n2, g1, g2, t1, t2, j1

MCViews == {n1 :> {g1, g2}, (n1 :> {g1, g2}) @@ (n2 :> {g1})}

Entry(ip, devices) == [ip |-> ip, devices |-> devices]

\* Everything, one GPU, the second node (unknown in the first view), nothing,
\* and a duplicate entry.
MCRequests ==
  {<<Entry(n1, {AllDevices})>>,
   <<Entry(n1, {g1})>>,
   <<Entry(n2, {g1})>>,
   <<>>,
   <<Entry(n1, {g1}), Entry(n1, {g2})>>}
============================================================================
