-------------------------- MODULE AliyunLbEndpoints --------------------------
(***************************************************************************)
(* The load-balancer endpoint cache of the Aliyun region driver (cloudmux  *)
(* pkg/multicloud/aliyun/region.go).  lbRequest sends DescribeRegions,     *)
(* DescribeZones and calls without a RegionId to slb.aliyuncs.com; any     *)
(* other call goes to the endpoint of its RegionId, which it looks up in   *)
(* lbEndpints after fetchLBRegions has filled it.  fetchLBRegions does     *)
(* nothing when the map is not empty; otherwise it sends DescribeRegions,  *)
(* sets the map to a fresh empty one, unmarshals the answer and enters     *)
(* every listed region.  Nothing ever empties or refreshes the map.        *)
(*                                                                         *)
(* One caller uses the region (as in AliyunRegion), so its calls form a    *)
(* sequence (MCUtilities runs them); the provider may open a region.  The  *)
(* cache is [map, nil] (lbEndpints, and whether it is still the nil map)   *)
(* and carries fill, an observation of the listing it was last filled      *)
(* from.  A region's endpoint is Endpoint(r).  A failed getSdkClient       *)
(* returns before anything is read or written and is left out.             *)
(***************************************************************************)
EXTENDS Sequences

Endpoint(r) == <<"endpoint", r>>

\* The domain "slb.aliyuncs.com", and the absent RegionId.
Central == "slb.aliyuncs.com"
NoRegion == "none"

\* The APIs lbRequest always sends to slb.aliyuncs.com.
CentralApis == {"DescribeRegions", "DescribeZones"}

\* A new SRegion: lbEndpints is the nil map, never filled.
NoFill == [filled |-> FALSE, listing |-> {}]
EmptyCache == [map |-> <<>>, nil |-> TRUE, fill |-> NoFill]

LbCached(c) == DOMAIN c.map # {}

\* fetchLBRegions against the provider's listing: the cache as it is, or
\* DescribeRegions, whose answer is "ok", "reqerr" (the request fails: the
\* map is untouched) or "badjson" (Unmarshal fails after the map was reset
\* to an empty one).  The result is [err, cache].
fetchLBRegions(c, listing, answer) ==
    CASE LbCached(c)           -> [err |-> FALSE, cache |-> c]
      [] answer = "reqerr"     -> [err |-> TRUE, cache |-> c]
      [] answer = "badjson"    -> [err |-> TRUE, cache |-> [c EXCEPT !.map = <<>>, !.nil = FALSE]]
      [] OTHER                 -> [err |-> FALSE,
                                   cache |-> [map |-> [r \in listing |-> Endpoint(r)], nil |-> FALSE,
                                              fill |-> [filled |-> TRUE, listing |-> listing]]]

\* lbRequest(api, params): the domain the request is sent to, or the error
\* that stops it (the request's own answer changes nothing here).  The
\* result is [cache, out], out being [region, domain, err].
lbRequest(c, listing, api, region, answer) ==
    IF api \in CentralApis \/ region = NoRegion
    THEN [cache |-> c, out |-> [region |-> region, domain |-> Central, err |-> "nil"]]
    ELSE LET f == fetchLBRegions(c, listing, answer)
         IN [cache |-> f.cache,
             out |-> CASE f.err                         -> [region |-> region, domain |-> Central, err |-> "fetch"]
                       [] region \in DOMAIN f.cache.map -> [region |-> region, domain |-> f.cache.map[region], err |-> "nil"]
                       [] OTHER                         -> [region |-> region, domain |-> Central, err |-> "noendpoint"]]

=============================================================================
