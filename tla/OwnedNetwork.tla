---------------------------- MODULE OwnedNetwork ----------------------------
(***************************************************************************)
(* The network resources the Linux controller owns (network.py) and the    *)
(* ownership receipt that names them (ownership.py): what is live in the   *)
(* kernel, what the receipt records, and how health() compares the two.    *)
(*                                                                         *)
(* Resources are acquired in one order and released in the reverse one, so *)
(* the receipt is the length of the recorded prefix.  The conntrack zone   *)
(* stands with its nft table, the route_localnet sysctl and the temporary  *)
(* private configuration with their interface.                             *)
(***************************************************************************)
EXTENDS Integers, Sequences

VARIABLES
    receipt,     \* -1: no receipt.json; n: the first n resources are recorded
    live,        \* the resources present in the kernel
    unrecorded,  \* the resource whose birth no record names yet, or "none"
    fenced,      \* the preferred route's record carries repair_pending
    tunnel,      \* the peer of the recorded interface; 0 while provisional
    bound        \* the peer whose profile digest the nft_table record carries

network == <<receipt, live, unrecorded, fenced, tunnel, bound>>

NoReceipt == -1

\* prepare(): fallback route, rule, nft table, interface, preferred route.
Order == <<"fallback", "rule", "nft", "interface", "preferred">>
Resources == {Order[i] : i \in 1..Len(Order)}
Anchors == {"fallback", "rule", "nft"}
Replaceable == {"interface", "preferred"}

Recorded == {Order[i] : i \in 1..receipt}
Top == Order[receipt]
Complete == receipt = Len(Order)

NetworkInit ==
    /\ receipt = NoReceipt
    /\ live = {}
    /\ unrecorded = "none"
    /\ fenced = FALSE
    /\ tunnel = 0
    /\ bound = 0

----------------------------------------------------------------------------
(* health(): recorded resources that are absent, and evidence that cannot   *)
(* be this controller's.  An unrecorded rule collides with the reserved     *)
(* priority, an unrecorded preferred route is foreign in the reserved table *)
(* unless a fence expects it, and a new interface differs from the recorded *)
(* ifindex; an unrecorded fallback route, nft table or first interface is   *)
(* not compared with anything.                                              *)
Missing == Recorded \ live

Changed(peer) ==
    \/ unrecorded = "rule"
    \/ unrecorded = "preferred" /\ ~fenced
    \/ unrecorded = "interface" /\ "interface" \in Recorded
    \/ "nft" \in Recorded \cap live /\ bound # peer

HealthReady(peer) ==
    /\ Complete
    /\ Missing = {}
    /\ ~Changed(peer)
    /\ tunnel = peer
    /\ ~fenced

AnchorsLive == Anchors \subseteq live

----------------------------------------------------------------------------
(* The single durable or kernel effects the operations are made of.         *)

\* inspect(): the reserved interface and table names must be free.
NamesFree == live \cap {"interface", "nft"} = {}

\* _publish(new_receipt()): the empty receipt, before any acquisition.
PublishReceipt ==
    /\ receipt' = 0
    /\ UNCHANGED <<live, unrecorded, fenced, tunnel, bound>>

\* The next resource of an acquisition, or the interface of a repair.
NextBirth == IF Complete THEN "interface" ELSE Order[receipt + 1]

\* _acquire(): the exclusive command succeeded; its record is the next step.
Create(r) ==
    /\ r \notin live
    /\ live' = live \cup {r}
    /\ unrecorded' = r
    /\ UNCHANGED <<receipt, fenced, tunnel, bound>>

\* _capture() and _record(): the readback identity is durable.
Capture(peer) ==
    /\ receipt' = IF Complete THEN receipt ELSE receipt + 1
    /\ unrecorded' = "none"
    /\ fenced' = (fenced /\ unrecorded # "preferred")
    /\ tunnel' = IF unrecorded = "interface" THEN 0 ELSE tunnel
    /\ bound' = IF unrecorded = "nft" THEN peer ELSE bound
    /\ UNCHANGED live

\* _install_interface() past its first capture: configured, up, recorded.
Configure(peer) ==
    /\ tunnel' = peer
    /\ UNCHANGED <<receipt, live, unrecorded, fenced, bound>>

\* Deleting the interface takes the preferred route, which leaves by it.
Delete(gone) ==
    /\ live' = live \ gone
    /\ unrecorded' = IF unrecorded \in gone THEN "none" ELSE unrecorded
    /\ UNCHANGED <<receipt, fenced, tunnel, bound>>

\* _remove() of the last record: delete what is live, then forget it.
RemoveTop ==
    IF Top \in live
    THEN Delete({Top})
    ELSE /\ receipt' = receipt - 1
         /\ fenced' = (fenced /\ Top # "preferred")
         /\ tunnel' = IF Top = "interface" THEN 0 ELSE tunnel
         /\ bound' = IF Top = "nft" THEN 0 ELSE bound
         /\ UNCHANGED <<live, unrecorded>>

\* repair_missing(): the durable fence before a replacement's birth.
Fence ==
    /\ fenced' = TRUE
    /\ UNCHANGED <<receipt, live, unrecorded, tunnel, bound>>

\* switch_peer(): the nft record is rebound to the target's digest.
Rebind(peer) ==
    /\ bound' = peer
    /\ UNCHANGED <<receipt, live, unrecorded, fenced, tunnel>>

\* _discard_receipt(), or the unlink of an unjournaled empty receipt.
DiscardReceipt ==
    /\ receipt = 0
    /\ receipt' = NoReceipt
    /\ UNCHANGED <<live, unrecorded, fenced, tunnel, bound>>
=============================================================================
