------------------------------- MODULE PageAbs -------------------------------
(***************************************************************************)
(* What paging promises its clients.  Each page translates to a frame of   *)
(* its own or faults.  A call to map or to unmap a page changes the        *)
(* translation of that page alone, once; a call to map may instead fail    *)
(* and change nothing.  Between calls no translation changes.              *)
(***************************************************************************)
CONSTANTS Page, Frame
VARIABLES
    pmap,   \* page -> frame, or Fault
    req     \* the running call: [op, page, frame]

Fault == 0
NoReq == [op |-> "none", page |-> Fault, frame |-> Fault]
Used == {pmap[p] : p \in Page}

Init == pmap = [p \in Page |-> Fault] /\ req = NoReq

CallMap(p) ==
    /\ req = NoReq /\ pmap[p] = Fault
    /\ req'.frame \in Frame \ Used
    /\ req' = [op |-> "map", page |-> p, frame |-> req'.frame]
    /\ UNCHANGED pmap

CallUnmap(p) ==
    /\ req = NoReq /\ pmap[p] # Fault
    /\ req' = [op |-> "unmap", page |-> p, frame |-> Fault]
    /\ UNCHANGED pmap

Returning == req' = [op |-> "return", page |-> Fault, frame |-> Fault]
Map == req.op = "map" /\ pmap' = [pmap EXCEPT ![req.page] = req.frame] /\ Returning
Fail == req.op = "map" /\ UNCHANGED pmap /\ Returning
Unmap == req.op = "unmap" /\ pmap' = [pmap EXCEPT ![req.page] = Fault] /\ Returning
Return == req.op = "return" /\ req' = NoReq /\ UNCHANGED pmap

absvars == <<pmap, req>>

Next == Map \/ Fail \/ Unmap \/ Return \/ \E p \in Page : CallMap(p) \/ CallUnmap(p)

Spec == Init /\ [][Next]_absvars
=============================================================================
