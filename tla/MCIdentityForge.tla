-------------------------- MODULE MCIdentityForge --------------------------
(***************************************************************************)
(* Instances of IdentityForge for TLC.  The sets of ids, slots and links   *)
(* are model values of the .cfg files and interchangeable.                 *)
(***************************************************************************)
EXTENDS IdentityForge, TLC

SlotsAndIds == Permutations(Requests) \cup Permutations(Sids)
                 \cup Permutations(Jtis) \cup Permutations(Links)

SessionOps  == {"login", "logout", "refresh", "revokeAll", "changePassword"}
RotationOps == {"login", "refresh"}
LockoutOps  == {"login"}
DeletionOps == {"login", "deleteAccount", "deleteUser", "updateStatus"}
RoleOps     == {"login", "updateRole", "revokeSession", "deleteAccount"}
AccountOps  == {"signup", "login", "verifyEmail", "deleteAccount", "deleteUser",
                "updateStatus", "updateRole", "revokeSession"}
ResetOps    == {"login", "logout", "forgot", "reset"}
RaceOps     == {"signup", "login", "logout", "refresh", "resend",
                "verifyEmail", "forgot", "reset"}
ReturnOps   == {"signup", "login", "deleteAccount", "verifyEmail"}
=============================================================================
