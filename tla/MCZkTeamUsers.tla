--------------------------- MODULE MCZkTeamUsers ---------------------------
(***************************************************************************)
(* Two instances of ZkTeam in one run. In the scene "library" two users and*)
(* the admin pay and grant with the library; in the scene "direct" other   *)
(* software and the owner execute what they like for the one user of       *)
(* Direct, beside the grants to it. No state of the second scene tells     *)
(* anything of another user, so that Symmetry maps none to another. Fees   *)
(* is {0} and the fee of 1 is left to the first scene, and the second has  *)
(* one operation in the mempool.                                           *)
(***************************************************************************)
EXTENDS MCZkTeam

VARIABLE scene

OnlyPays == \A u \in User : transfer[u].at # "idle" => transfer[u].call = Pay

GrantsToDirect ==
  /\ grant.at # "idle" => grant.user \in Direct
  /\ Cardinality(pending) <= 1

CostlyStep == \E op \in pending : ExecuteOp(op, 1) \/ RevertOp(op, 1)

LibraryNext ==
  /\ (\E u \in User : UserStep(u)) \/ AdminStep \/ BundlerStep \/ CostlyStep \/ EtherStep
  /\ OnlyPays'

DirectNext == (AdminStep \/ BundlerStep \/ DirectStep) /\ GrantsToDirect'

UsersInit == Init /\ scene \in {"library", "direct"}

UsersNext ==
  \/ scene = "library" /\ LibraryNext /\ UNCHANGED scene
  \/ scene = "direct" /\ DirectNext /\ UNCHANGED scene

UsersSpec == UsersInit /\ [][UsersNext]_<<vars, scene>>
=============================================================================
