--------------------------- MODULE AccessControl ---------------------------
(***************************************************************************)
(* The privileges of the liquidity program: the Liquidity account (who     *)
(* governs, who receives revenue, whether the program is locked) and the   *)
(* AuthorizationList account (auths, guardians and user classes), with the *)
(* instructions that change them.                                          *)
(*                                                                         *)
(* A Solana instruction that returns an error is rolled back, so an        *)
(* instruction the program refuses is an action that is not enabled.  The  *)
(* lists are vectors rebuilt from a hash map on every write, which leaves  *)
(* no duplicates and no order: they are sets here.                         *)
(***************************************************************************)
EXTENDS Naturals, Sequences, FiniteSets

CONSTANTS
  Accounts,          \* keys that may sign admin instructions
  Protocols,         \* keys of the protocols that use the liquidity layer
  DefaultPubkey,     \* Pubkey::default(), the "no key" value
  GOVERNANCE_MS,     \* the only key authority may be handed to
  MAX_AUTH_COUNT,    \* capacity of each of the two lists
  MAX_USER_CLASSES,  \* capacity of the user class list
  AuthUpdates,       \* arguments of update_auths and update_guardians: sequences of [addr, value]
  ClassUpdates       \* arguments of update_user_class: sequences of [addr, value]

Pubkeys == Accounts \cup Protocols

ASSUME AccessAssumption ==
  /\ IsFiniteSet(Accounts) /\ IsFiniteSet(Protocols)
  /\ DefaultPubkey \notin Pubkeys
  /\ GOVERNANCE_MS \in Accounts
  /\ MAX_AUTH_COUNT \in Nat \ {0} /\ MAX_USER_CLASSES \in Nat \ {0}
  /\ AuthUpdates \subseteq Seq([addr : Accounts \cup {DefaultPubkey}, value : BOOLEAN])
  /\ ClassUpdates \subseteq Seq([addr : Pubkeys \cup {DefaultPubkey}, value : Nat])

VARIABLES
  authority,          \* Liquidity.authority
  revenue_collector,  \* Liquidity.revenue_collector
  locked,             \* Liquidity.status: TRUE = locked
  auth_users,         \* AuthorizationList.auth_users
  guardians,          \* AuthorizationList.guardians
  user_classes        \* AuthorizationList.user_classes: key -> class, for the keys listed

accessVars == <<authority, revenue_collector, locked, auth_users, guardians, user_classes>>

AccessTypeOK ==
  /\ authority \in Accounts
  /\ revenue_collector \in Accounts
  /\ locked \in BOOLEAN
  /\ auth_users \subseteq Accounts
  /\ guardians \subseteq Accounts
  /\ DOMAIN user_classes \subseteq Pubkeys
  /\ user_classes \in [DOMAIN user_classes -> {0, 1}]

(* The accounts as init_liquidity leaves them.                             *)
AccessInit ==
  /\ authority \in Accounts
  /\ revenue_collector \in Accounts
  /\ locked = FALSE
  /\ auth_users = {authority}
  /\ guardians = {authority}
  /\ user_classes = [k \in {} |-> 0]

-----------------------------------------------------------------------------
(* The value the last entry of list gives key; meaningful when listed.     *)
Listed(list, key) == \E i \in DOMAIN list : list[i].addr = key

LastValue(list, key) ==
  LET last == CHOOSE i \in DOMAIN list :
                 /\ list[i].addr = key
                 /\ \A j \in DOMAIN list : list[j].addr = key => j <= i
  IN  list[last].value

(* members after the flags of list are inserted in order into the map that *)
(* sends every current member to true, and the true entries are kept.      *)
Reassigned(members, list) ==
  {key \in Accounts :
     IF Listed(list, key) THEN LastValue(list, key) ELSE key \in members}

(* Mutant: the check that the authority keeps its entry is missing.        *)
RemovableAuthority(list) == \A i \in DOMAIN list : list[i].addr # DefaultPubkey

(* An entry may not name the default key nor remove the authority.         *)
StatusListAllowed(list) ==
  \A i \in DOMAIN list :
    /\ list[i].addr # DefaultPubkey
    /\ list[i].addr = authority => list[i].value

(* Mutant: the length is checked with one key too many.                    *)
FitsWithOneMore(members) == Cardinality(members) - 1 <= MAX_AUTH_COUNT

FitsList(members) == Cardinality(members) <= MAX_AUTH_COUNT

UpdateAuths(signer, list) ==
  /\ signer = authority
  /\ StatusListAllowed(list)
  /\ FitsList(Reassigned(auth_users, list))
  /\ auth_users' = Reassigned(auth_users, list)
  /\ UNCHANGED <<authority, revenue_collector, locked, guardians, user_classes>>

UpdateGuardians(signer, list) ==
  /\ signer = authority
  /\ StatusListAllowed(list)
  /\ FitsList(Reassigned(guardians, list))
  /\ guardians' = Reassigned(guardians, list)
  /\ UNCHANGED <<authority, revenue_collector, locked, auth_users, user_classes>>

(* Mutant: the old authority stays a member.                               *)
AddedTo(members, new_authority) == members \cup {new_authority}

HandedOver(members, new_authority) == (members \ {authority}) \cup {new_authority}

(* The handler moves both memberships of the old authority to the new one  *)
(* and does not look at the capacity of the lists.                         *)
UpdateAuthority(signer, new_authority) ==
  /\ signer = authority
  /\ new_authority = GOVERNANCE_MS
  /\ authority' = new_authority
  /\ auth_users' = HandedOver(auth_users, new_authority)
  /\ guardians' = HandedOver(guardians, new_authority)
  /\ UNCHANGED <<revenue_collector, locked, user_classes>>

UpdateRevenueCollector(signer, collector) ==
  /\ signer = authority
  /\ collector # DefaultPubkey
  /\ revenue_collector' = collector
  /\ UNCHANGED <<authority, locked, auth_users, guardians, user_classes>>

ChangeStatus(signer, status) ==
  /\ signer \in auth_users
  /\ locked # status
  /\ locked' = status
  /\ UNCHANGED <<authority, revenue_collector, auth_users, guardians, user_classes>>

ReclassifiedKeys(list) == DOMAIN user_classes \cup {list[i].addr : i \in DOMAIN list}

ClassListAllowed(list) ==
  \A i \in DOMAIN list : list[i].value <= 1 /\ list[i].addr # DefaultPubkey

UpdateUserClass(signer, list) ==
  /\ signer \in auth_users
  /\ ClassListAllowed(list)
  /\ Cardinality(ReclassifiedKeys(list)) <= MAX_USER_CLASSES
  /\ user_classes' = [key \in ReclassifiedKeys(list) |->
                        IF Listed(list, key) THEN LastValue(list, key) ELSE user_classes[key]]
  /\ UNCHANGED <<authority, revenue_collector, locked, auth_users, guardians>>

(* The class pause_user looks up; a protocol that is not listed is class 0.*)
UserClassOf(protocol) ==
  IF protocol \in DOMAIN user_classes THEN user_classes[protocol] ELSE 0

AccessNext ==
  \E signer \in Accounts :
    \/ \E list \in AuthUpdates : UpdateAuths(signer, list)
    \/ \E list \in AuthUpdates : UpdateGuardians(signer, list)
    \/ \E new \in Accounts : UpdateAuthority(signer, new)
    \/ \E collector \in Accounts : UpdateRevenueCollector(signer, collector)
    \/ \E status \in BOOLEAN : ChangeStatus(signer, status)
    \/ \E list \in ClassUpdates : UpdateUserClass(signer, list)

AccessSpec == AccessInit /\ [][AccessNext]_accessVars

-----------------------------------------------------------------------------
(* The authority can always act as an auth and as a guardian: no sequence  *)
(* of list updates and handovers (update_auths, update_guardians,          *)
(* update_authority) drops it from either list.                            *)
AuthorityPrivileged == authority \in auth_users /\ authority \in guardians

(* Neither list outgrows the account space reserved for it (state.rs       *)
(* max_len), although update_authority inserts without a length check.     *)
ListsFit ==
  /\ Cardinality(auth_users) <= MAX_AUTH_COUNT
  /\ Cardinality(guardians) <= MAX_AUTH_COUNT
  /\ Cardinality(DOMAIN user_classes) <= MAX_USER_CLASSES

(* A handover leaves the previous authority with no privilege at all: it   *)
(* is out of both lists, not only out of the authority field.              *)
HandoverRevokes ==
  [][authority' # authority =>
       authority \notin auth_users' /\ authority \notin guardians']_accessVars
=============================================================================
