---------------------------- MODULE AliyunRegion ----------------------------
(***************************************************************************)
(* The zone and VPC caches of the Aliyun region driver (cloudmux           *)
(* pkg/multicloud/aliyun/region.go).  GetIZones and GetIVpcs, and every    *)
(* lookup built on them, fill the two caches on first use through          *)
(* fetchInfrastructure: DescribeZones replaces izones, fetchIVpcs pages    *)
(* through DescribeVpcs and replaces ivpcs, then every VPC is wired to     *)
(* every zone.  CreateVpc refetches the whole infrastructure, DeleteVpc    *)
(* does not touch the caches.                                              *)
(*                                                                         *)
(* One caller uses the region (the driver has no lock; two callers would   *)
(* race on the caches).  Other clients of the account create and delete    *)
(* VPCs at any time, also between two pages of a fetch.  The provider's    *)
(* VPC list is a sequence of distinct ids in listing order; a new VPC may  *)
(* appear anywhere in it.  Zones do not change, so izones is only cached   *)
(* or not; "wired" says whether the cached zone objects and the cached VPC *)
(* objects carry the wires of one and the same fetch.                      *)
(***************************************************************************)
EXTENDS Integers, Sequences, SequencesExt

CONSTANTS
    VpcIds,       \* VPC ids (an id deleted may come back as a new VPC)
    PageSize,     \* the page size fetchIVpcs asks for (50 in the code)
    MaxChanges    \* bound on the changes of other clients during one fetch

VARIABLES
    cloud,        \* the provider's VPC list, in listing order
    zonesCached,  \* izones != nil
    vpcsCached,   \* ivpcs != nil
    ivpcs,        \* the cached VPC list (the ids, in order)
    wired,        \* cached zones and cached VPCs are wired to each other
    pc,           \* the caller: "idle" | "vpcs" (inside the fetchIVpcs loop)
    acc,          \* the vpcs fetchIVpcs has gathered so far
    changes,      \* changes by other clients since the current fetch began
    lastFetch     \* observation: [vpcs, listing, changes] of the last
                  \* fetchIVpcs that returned nil

vars == <<cloud, zonesCached, vpcsCached, ivpcs, wired, pc, acc, changes, lastFetch>>

NoFetch == [vpcs |-> <<>>, listing |-> <<>>, changes |-> 0]

Init ==
    /\ cloud \in {s \in BoundedSeq(VpcIds, 2) : IsInjective(s)}
    /\ zonesCached = FALSE
    /\ vpcsCached = FALSE
    /\ ivpcs = <<>>
    /\ wired = FALSE
    /\ pc = "idle"
    /\ acc = <<>>
    /\ changes = 0
    /\ lastFetch = NoFetch

-----------------------------------------------------------------------------
(* The provider *)

\* The ids a VPC may be created with, and where it may be listed.
NewVpc(v, i) == v \notin Range(cloud) /\ i \in 1..Len(cloud) + 1

\* Mutant of GetVpcsPage: the offset is sent as the page index.
GetVpcsPageOffsetAsPage(offset) ==
    LET first == offset * PageSize + 1
        last  == IF first + PageSize - 1 > Len(cloud) THEN Len(cloud)
                 ELSE first + PageSize - 1
    IN SubSeq(cloud, first, last)

\* GetVpcs(nil, offset, limit): PageNumber is offset/limit + 1, and the
\* answer is that page of the current list with the current TotalCount.
GetVpcsPage(offset) ==
    LET first == (offset \div PageSize) * PageSize + 1
        last  == IF first + PageSize - 1 > Len(cloud) THEN Len(cloud)
                 ELSE first + PageSize - 1
    IN SubSeq(cloud, first, last)

-----------------------------------------------------------------------------
(* The caller *)

\* fetchInfrastructure begins with _fetchZones: a successful DescribeZones
\* replaces izones by fresh zone objects that carry no wire; the VPC
\* objects still cached keep their wires to the replaced zones.  A failed
\* one returns the error and changes nothing.
FetchZones(ok) ==
    IF ok THEN /\ zonesCached' = TRUE
               /\ wired' = FALSE
               /\ pc' = "vpcs"
               /\ acc' = <<>>
               /\ changes' = 0
    ELSE UNCHANGED <<zonesCached, wired, pc, acc, changes>>

\* GetIZones (and GetIZoneById, getZoneById, GetIHostById, GetIStorageById,
\* GetIHosts, GetIStorages, which go through it) when izones is nil, and
\* GetIVpcs (and GetIVpcById) when ivpcs is nil: fetchInfrastructure.
\* With the cache set they only read it.  A failed DescribeZones is no
\* step: nothing changes.
GetIZones ==
    /\ pc = "idle"
    /\ ~zonesCached
    /\ FetchZones(TRUE)
    /\ UNCHANGED <<cloud, vpcsCached, ivpcs, lastFetch>>

GetIVpcs ==
    /\ pc = "idle"
    /\ ~vpcsCached
    /\ FetchZones(TRUE)
    /\ UNCHANGED <<cloud, vpcsCached, ivpcs, lastFetch>>

\* Mutant of fetchIVpcs: the loop stops only once it has more than
\* TotalCount VPCs.
fetchIVpcsPastTotal(ok) ==
    LET part == GetVpcsPage(Len(acc))
        vpcs == acc \o part
    IN /\ pc = "vpcs"
       /\ \/ ~ok /\ pc' = "idle" /\ UNCHANGED <<vpcsCached, ivpcs, wired, acc, lastFetch>>
          \/ ok /\ Len(vpcs) <= Len(cloud) /\ acc' = vpcs
             /\ UNCHANGED <<pc, vpcsCached, ivpcs, wired, lastFetch>>
          \/ ok /\ Len(vpcs) > Len(cloud)
             /\ pc' = "idle" /\ vpcsCached' = TRUE /\ ivpcs' = vpcs /\ wired' = TRUE
             /\ lastFetch' = [vpcs |-> vpcs, listing |-> cloud, changes |-> changes]
             /\ UNCHANGED acc
       /\ UNCHANGED <<cloud, zonesCached, changes>>

\* One iteration of the fetchIVpcs loop: GetVpcs(nil, len(vpcs), limit),
\* an error ends fetchInfrastructure (izones stays replaced and unwired);
\* the page is appended, and once len(vpcs) >= total the loop ends:
\* ivpcs is replaced, and fetchInfrastructure wires every cached VPC to
\* every cached zone.  (CreateVpc then reads its VPC back with getVpc,
\* which changes nothing.)
fetchIVpcs(ok) ==
    LET part == GetVpcsPage(Len(acc))
        vpcs == acc \o part
    IN /\ pc = "vpcs"
       /\ \/ ~ok /\ pc' = "idle" /\ UNCHANGED <<vpcsCached, ivpcs, wired, acc, lastFetch>>
          \/ ok /\ Len(vpcs) < Len(cloud) /\ acc' = vpcs
             /\ UNCHANGED <<pc, vpcsCached, ivpcs, wired, lastFetch>>
          \/ ok /\ Len(vpcs) >= Len(cloud)
             /\ pc' = "idle" /\ vpcsCached' = TRUE /\ ivpcs' = vpcs /\ wired' = TRUE
             /\ lastFetch' = [vpcs |-> vpcs, listing |-> cloud, changes |-> changes]
             /\ UNCHANGED acc
       /\ UNCHANGED <<cloud, zonesCached, changes>>

\* CreateVpc (CreateIVpc): the CreateVpc request, then fetchInfrastructure
\* whatever the caches hold.  A failed request is no step.
CreateVpc(v, i, zonesOk) ==
    /\ pc = "idle"
    /\ NewVpc(v, i)
    /\ cloud' = InsertAt(cloud, i, v)
    /\ FetchZones(zonesOk)
    /\ UNCHANGED <<vpcsCached, ivpcs, lastFetch>>

\* DeleteVpc: the request only; the caches keep the VPC.
DeleteVpc(v) ==
    /\ pc = "idle"
    /\ v \in Range(cloud)
    /\ cloud' = Remove(cloud, v)
    /\ UNCHANGED <<zonesCached, vpcsCached, ivpcs, wired, pc, acc, changes, lastFetch>>

-----------------------------------------------------------------------------
(* Other clients of the account *)

OtherClientChange ==
    /\ pc = "vpcs" => changes < MaxChanges
    /\ \/ \E v \in VpcIds, i \in 1..Len(cloud) + 1 : NewVpc(v, i) /\ cloud' = InsertAt(cloud, i, v)
       \/ \E v \in Range(cloud) : cloud' = Remove(cloud, v)
    /\ changes' = IF pc = "vpcs" THEN changes + 1 ELSE changes
    /\ UNCHANGED <<zonesCached, vpcsCached, ivpcs, wired, pc, acc, lastFetch>>

Next ==
    \/ GetIZones
    \/ GetIVpcs
    \/ \E ok \in BOOLEAN : fetchIVpcs(ok)
    \/ \E v \in VpcIds, i \in 1..Cardinality(VpcIds), ok \in BOOLEAN : CreateVpc(v, i, ok)
    \/ \E v \in VpcIds : DeleteVpc(v)
    \/ OtherClientChange

\* The caller's goroutine keeps running the loop it is in and DescribeVpcs
\* does not fail for ever.  A failed call ends the loop, so the fairness
\* is on the successful call; the loop with the code's page arithmetic
\* never makes a call that leaves its state as it was.
FairSpec == Init /\ [][Next]_vars /\ WF_vars(fetchIVpcs(TRUE))

-----------------------------------------------------------------------------
(* Properties *)

\* A fetchIVpcs during which no other client changed the VPC list caches
\* exactly that list: the page arithmetic of GetVpcs (PageNumber =
\* offset/limit + 1) and the loop's stop at len(vpcs) >= total neither
\* skip nor repeat a VPC.
VpcCacheExactWhenStable ==
    lastFetch.changes = 0 => lastFetch.vpcs = lastFetch.listing

\* Every fetchIVpcs loop ends, by an error or with the VPCs cached, as long
\* as other clients change the list finitely often while it runs.
FetchEnds == pc = "vpcs" ~> pc = "idle"
=============================================================================
