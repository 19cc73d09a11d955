---------------------------- MODULE MCTuneTrials ----------------------------
(* Two jobs, one with two trials, that share the GPU of one node.          *)
EXTENDS TuneTrials, TLC

CONSTANTS n1, g1, t1, t2, t3, j1, j2

MCViews == {n1 :> Gpus}

MCRequests ==
  {<<[ip |-> n1, devices |-> {AllDevices}]>>,
   <<[ip |-> n1, devices |-> {}]>>,
   <<>>}

MCJobOf == [t \in Trials |-> IF t = t3 THEN j2 ELSE j1]

MCFractionOf == [t \in Trials |-> IF t = t2 THEN 2 ELSE 1]
=============================================================================
