----------------------------- MODULE Membership -----------------------------
(***************************************************************************)
(* What the community groups promise, without requests or versions: a      *)
(* group is formed at once with two members or more and a slug of its own, *)
(* then gains or loses one member at a time and never has fewer than two.  *)
(***************************************************************************)
CONSTANTS Group, Community, Slug, None

VARIABLES members,  \* the members of each group; none before it is formed
          slugOf    \* the slug of each group formed

vars == <<members, slugOf>>

AtLeastTwo(s) == \E c, d \in s : c # d

(* Any groups of which no two share a slug.                                *)
Init ==
  /\ members \in [Group -> {s \in SUBSET Community : s = {} \/ AtLeastTwo(s)}]
  /\ slugOf \in [Group -> Slug \cup {None}]
  /\ \A g \in Group : members[g] = {} <=> slugOf[g] = None
  /\ \A g, h \in Group : slugOf[g] = slugOf[h] => g = h \/ slugOf[g] = None

Form(g, s, slug) ==
  /\ members[g] = {} /\ AtLeastTwo(s)
  /\ \A h \in Group : slugOf[h] # slug
  /\ members' = [members EXCEPT ![g] = s]
  /\ slugOf' = [slugOf EXCEPT ![g] = slug]

Add(g, c) == /\ members[g] # {} /\ c \notin members[g]
             /\ members' = [members EXCEPT ![g] = @ \cup {c}]
             /\ UNCHANGED slugOf

Remove(g, c) == /\ c \in members[g] /\ AtLeastTwo(members[g] \ {c})
                /\ members' = [members EXCEPT ![g] = @ \ {c}]
                /\ UNCHANGED slugOf

Next == \E g \in Group : \/ \E s \in SUBSET Community, slug \in Slug : Form(g, s, slug)
                         \/ \E c \in Community : Add(g, c) \/ Remove(g, c)

Spec == Init /\ [][Next]_vars
=============================================================================
