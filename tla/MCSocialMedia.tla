--------------------------- MODULE MCSocialMedia ----------------------------
(***************************************************************************)
(* SocialMedia for TLC: three requests over the tables as the script makes *)
(* them, with texts and ids on both sides of every check.                  *)
(***************************************************************************)
EXTENDS SocialMedia, TLC

MCAccounts == {[id |-> 1, name |-> "testuser1"]}
MCMessages == {[id |-> 1, by |-> 1, text |-> 14]}

Account(k, n, ok) == [NoRequest EXCEPT !.kind = k, !.name = n, !.ok = ok]
Message(k, i, x, ok) == [NoRequest EXCEPT !.kind = k, !.id = i, !.text = x, !.ok = ok]

MCUnstorable == {"o'brien"}

MCAsk ==
  {Account("register", "new", TRUE), Account("register", "new", FALSE), Account("register", "new", NULL),
   Account("register", "", NULL), Account("register", NULL, TRUE), Account("register", "testuser1", TRUE),
   Account("register", "o'brien", TRUE),
   Account("login", "new", TRUE), Account("login", "testuser1", FALSE), Account("login", NULL, NULL),
   Message("post", 1, 254, TRUE), Message("post", 2, 254, TRUE), Message("post", 1, 255, TRUE),
   Message("post", 1, 0, NULL),
   Message("patch", 1, 255, TRUE), Message("patch", 1, 256, TRUE),
   Message("delete", 1, 0, TRUE), Message("delete", 1, 0, FALSE),
   Message("getOne", 1, 0, TRUE), Message("getAll", 0, 0, TRUE),
   Message("getUser", 1, 0, TRUE), Message("getUser", 1, 0, FALSE)}

MCSymmetry == Permutations(Request)
=============================================================================
