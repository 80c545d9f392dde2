------------------------------ MODULE PolicyIO ------------------------------
(***************************************************************************)
(* Policy documents (policy/io.py, policy/conformance.py): the strict      *)
(* policy-mcp projection of a policy, what a policy-mcp consumer's file    *)
(* imports to, and the structural check of the projection.                 *)
(*                                                                         *)
(* A document has a permissions block: network grants under "host" or      *)
(* "cidr", storage grants that join both accesses to a path, and           *)
(* environment keys; and, unless it is foreign or stripped, the extension  *)
(* block with the capabilities in full and the hash of the manifest they   *)
(* were inferred from.  The "fs://" scheme is put in front of a path and   *)
(* taken off again as it is, so a URI stands here for its path.            *)
(***************************************************************************)
EXTENDS Contract

CONSTANTS Cidr,         \* the host values that are written as IPv4 blocks
          Starred       \* the malformed variable names, "FOO*"

ASSUME CidrAssumption == \A v \in Cidr : v.wild = "none"

Root == [slashes |-> 1, comps |-> << >>]

(* The host value that is the empty string.                                *)
EmptyHost == [wild |-> "none", labels |-> <<Empty>>]

granted_values(policy, cap) ==
    IF granted(policy, cap) THEN policy[cap].values ELSE {}

net_grant(v) == [key |-> IF v \in Cidr THEN "cidr" ELSE "host", value |-> v]

(* The capability behind an access token of a storage grant.               *)
AccessCap == [read |-> "fs.read", write |-> "fs.write"]

StorageGrants(policy) ==
    {[uri    |-> p,
      access |-> {a \in DOMAIN AccessCap : p \in granted_values(policy, AccessCap[a])}] :
     p \in granted_values(policy, "fs.read") \cup granted_values(policy, "fs.write")}

(* A name with a star in it makes the emitter raise.                       *)
Emits(policy) == granted_values(policy, "env") \cap Starred = {}

(* Mutant: the class-level "*" is written as a key.                        *)
permissions_block_star(policy) ==
    [network     |-> {net_grant(v) : v \in granted_values(policy, "net.http")},
     storage     |-> StorageGrants(policy),
     environment |-> granted_values(policy, "env")]

permissions_block(policy) ==
    [network     |-> {net_grant(v) : v \in granted_values(policy, "net.http")},
     storage     |-> StorageGrants(policy),
     environment |-> granted_values(policy, "env") \ {"*"}]

-----------------------------------------------------------------------------
(* Import.  Trailing "*" and "**" components are taken off a storage path, *)
(* one by one; what has nothing left is the root.                          *)

Kept(comps) ==
    CHOOSE k \in 0..Len(comps) :
        /\ \A i \in k + 1..Len(comps) : comps[i] \in {"*", "**"}
        /\ k > 0 => comps[k] \notin {"*", "**"}

storage_uri_to_prefix(p) ==
    IF Kept(p.comps) = 0 /\ (p.comps # << >> \/ p.slashes = 0) THEN Root
    ELSE [p EXCEPT !.comps = SubSeq(@, 1, Kept(p.comps))]

(* Mutant: both accesses of a storage grant are read as either one.        *)
prefixes_any(storage, access) == {storage_uri_to_prefix(g.uri) : g \in storage}

prefixes(storage, access) ==
    {storage_uri_to_prefix(g.uri) : g \in {h \in storage : access \in h.access}}

import_foreign(doc) ==
    LET values ==
          [cap \in CapabilityId |->
             CASE cap = "net.http" -> {g.value : g \in doc.network} \ {EmptyHost}
               [] cap = "fs.read"  -> prefixes(doc.storage, "read")
               [] cap = "fs.write" -> prefixes(doc.storage, "write")
               [] cap = "env"      -> doc.environment \ {Empty}
               [] OTHER            -> {}]
    IN  [cap \in CapabilityId |->
           [status |-> IF values[cap] # {} THEN "inferred" ELSE "denied",
            values |-> values[cap]]]

-----------------------------------------------------------------------------
(* The structural check, on the values of a document of the right shape.   *)

check_network_perm(g) ==
    /\ g.key = "host" => g.value # EmptyHost
    /\ g.key = "cidr" => g.value \in Cidr
check_storage_perm(g) == g.access # {} /\ g.access \subseteq {"read", "write"}
check_environment(key) == key # Empty /\ key # "*" /\ key \notin Starred

policy_mcp_base_conforms(doc) ==
    /\ \A g \in doc.network : check_network_perm(g)
    /\ \A g \in doc.storage : check_storage_perm(g)
    /\ \A key \in doc.environment : check_environment(key)

-----------------------------------------------------------------------------
(* Whole documents.  ext is <<block>>, or << >> where the block is missing. *)
(* An entry of caps is what a human may edit: a class, its status and its  *)
(* values, which are a list unless someone wrote a scalar.                 *)

CapOrder == <<"net.http", "fs.read", "fs.write", "proc.exec", "env">>

CapsOf(policy) ==
    [i \in DOMAIN CapOrder |->
        [id |-> CapOrder[i], status |-> policy[CapOrder[i]].status,
         list |-> TRUE, values |-> policy[CapOrder[i]].values]]

policy_to_dict(policy, hash) ==
    [permissions |-> permissions_block(policy),
     ext         |-> <<[hash |-> hash, caps |-> CapsOf(policy)]>>]

policy_to_policy_mcp_base(policy) ==
    [permissions |-> permissions_block(policy), ext |-> << >>]

Unbound  == ""                  \* the hash of a document without extension
Rejected == [hash |-> "rejected"]

(* Mutant: of two entries for a class the first one counts.                *)
well_formed_first_wins(caps) ==
    \A i \in DOMAIN caps : caps[i].list /\ caps[i].id \in CapabilityId

well_formed(caps) ==
    /\ \A i \in DOMAIN caps : caps[i].list /\ caps[i].id \in CapabilityId
    /\ \A i, j \in DOMAIN caps : caps[i].id = caps[j].id => i = j

load_caps(caps) ==
    [cap \in CapabilityId |->
        LET at == {i \in DOMAIN caps : caps[i].id = cap} IN
        IF at = {} THEN [status |-> "denied", values |-> {}]
        ELSE [status |-> caps[Min(at)].status, values |-> caps[Min(at)].values]]

load_policy(doc) ==
    CASE doc.ext = << >> -> [hash |-> Unbound, policy |-> import_foreign(doc.permissions)]
      [] doc.ext # << >> /\ well_formed(doc.ext[1].caps) ->
            [hash |-> doc.ext[1].hash, policy |-> load_caps(doc.ext[1].caps)]
      [] OTHER -> Rejected

verify_manifest_hash(loaded, hash) == loaded.hash = hash
=============================================================================
