---------------------------- MODULE MCAccounts ------------------------------
(***************************************************************************)
(* Small instances of Accounts for TLC.                                    *)
(***************************************************************************)
EXTENDS Accounts

CONSTANTS a, b, c, g1, g2

MCUsers == {a, b, c}
MCGroups == {g1, g2}
MCManaging == {g1}

Row(admin, active) == [row |-> "live", admin |-> admin, active |-> active, password |-> 0]
NoRow == [row |-> "none", admin |-> FALSE, active |-> FALSE, password |-> 0]

(* One administrator, and beside him another, a deactivated one, or a user *)
(* who is none; a third account may be created.                            *)
MCStarts == { [u \in MCUsers |-> CASE u = a -> Row(TRUE, TRUE) [] u = b -> x [] u = c -> NoRow] :
                x \in {Row(TRUE, TRUE), Row(TRUE, FALSE), Row(FALSE, TRUE)} }

Ask(kind, actor, user, admin, active, groups) ==
    [kind |-> kind, actor |-> actor, user |-> user,
     admin |-> admin, active |-> active, groups |-> groups]

(* Two saves of one user's groups, one of which demotes him; the other     *)
(* administrator deleted, a password reset and a sign-in.                  *)
MCRequests == {
    Ask("update", a, a, TRUE, FALSE, {g1}),
    Ask("update", a, a, TRUE, TRUE, {g2}),
    Ask("delete", a, b, FALSE, FALSE, {}),
    Ask("reset", a, a, FALSE, FALSE, {}),
    Ask("signin", a, a, FALSE, FALSE, {}),
    Ask("own", b, b, FALSE, FALSE, {}),
    Ask("logout", b, b, FALSE, FALSE, {}),
    Ask("create", a, c, TRUE, TRUE, {}) }

(* Each of two administrators is taken away by the other. *)
TwoRequests == {
    Ask("update", b, a, FALSE, TRUE, {}),
    Ask("delete", a, b, FALSE, FALSE, {}) }
=============================================================================
