------------------------------ MODULE LockKeys ------------------------------
(***************************************************************************)
(* The lock keys of the Aquilon broker: lib/aquilon/locks.py (LockKey) and  *)
(* lib/aquilon/worker/locks.py (the key classes commands construct).        *)
(*                                                                         *)
(* A LockKey holds two dictionaries, shared and exclusive, that map a       *)
(* namespace ("domain", "profile", "misc", ...) to a set of strings.  Here  *)
(* a dictionary is the set of its <<namespace, item>> pairs: the code only   *)
(* ever adds items, intersects them per namespace and subtracts them.       *)
(***************************************************************************)
CONSTANTS Name,     \* the strings naming domains, profiles, personalities...
          NoName    \* stands for an argument left out (None)

PlenaryNamespace == {"personality", "service", "network", "cluster_member",
                     "network_device", "virtual_switch"}

Namespace == PlenaryNamespace
               \cup {"domain", "profile", "misc", "sync", "external"}

(* misc/compile is the one item of the "misc" namespace: the global compile *)
(* lock.                                                                    *)
CompileItem == <<"misc", "compile">>

Item == (Namespace \X Name) \cup {CompileItem}

LockKey == [shared : SUBSET Item, exclusive : SUBSET Item]

(***************************************************************************)
(* LockKey.blocks: the items of key j that block key k.                     *)
(***************************************************************************)
(* mutant: the blocks() of a lock without readers and writers. *)
BlockersIgnoringShared(j, k) == (j.exclusive \cap k.exclusive)
                                  \cup (j.shared \cap k.exclusive)

Blockers(j, k) == (j.exclusive \cap (k.exclusive \cup k.shared))
                    \cup (j.shared \cap k.exclusive)

Blocks(j, k) == Blockers(j, k) # {}

(***************************************************************************)
(* LockKey.merge: one key for a list of keys.  An item locked exclusively   *)
(* by one of them is not kept as a shared item.                             *)
(***************************************************************************)
Merge(keys) ==
  LET exclusive == UNION {k.exclusive : k \in keys}
      shared    == UNION {k.shared : k \in keys}
  IN  [shared |-> shared \ exclusive, exclusive |-> exclusive]

(***************************************************************************)
(* The key classes of worker/locks.py.                                      *)
(***************************************************************************)
NoLockKey == [shared |-> {}, exclusive |-> {}]

(* CompileKey raises InternalError for a profile without a domain, unless   *)
(* the caller passes force_domain=False.                                    *)
CompileKeyAllowed(domain, profile, force_domain) ==
  profile # NoName /\ domain = NoName => ~force_domain

CompileKey(domain, profile) ==
  LET inDomain == IF domain = NoName THEN {} ELSE {<<"domain", domain>>}
  IN  IF profile # NoName
        THEN [shared    |-> inDomain \cup {CompileItem},
              exclusive |-> {<<"profile", profile>>}]
        ELSE IF domain # NoName
               THEN [shared |-> {CompileItem}, exclusive |-> inDomain]
               ELSE [shared |-> {}, exclusive |-> {CompileItem}]

(* items are the <<namespace, name>> pairs of the arguments that are given. *)
PlenaryKey(items, exclusive) ==
  [shared    |-> {CompileItem} \cup (IF exclusive THEN {} ELSE items),
   exclusive |-> IF exclusive THEN items ELSE {}]

SyncKey(data) == [shared |-> {}, exclusive |-> {<<"sync", data>>}]

\* The items stand for service and item together: the code has a namespace
\* of its own, "external/" and its name, for each service.
ExternalKey(items) ==
  [shared |-> {}, exclusive |-> {<<"external", i>> : i \in items}]

(***************************************************************************)
(* The keys that guard an object profile: PlenaryHostObject.get_key and     *)
(* PlenaryClusterObject.get_key merge the compile key of the profile with   *)
(* shared keys on everything the profile includes (personality, services,   *)
(* cluster, ...); a deleted object has the compile key alone.               *)
(***************************************************************************)
ObjectProfileKey(domain, profile, includes, deleted) ==
  IF deleted
    THEN Merge({CompileKey(domain, profile)})
    ELSE Merge({CompileKey(domain, profile)}
                 \cup {PlenaryKey({i}, FALSE) : i \in includes})

(***************************************************************************)
(* PlenaryCollection.get_key: the key of a transaction over many plenaries. *)
(***************************************************************************)
CollectionKey(keys) == Merge({NoLockKey} \cup keys)
=============================================================================
