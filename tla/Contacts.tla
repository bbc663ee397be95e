------------------------------ MODULE Contacts ------------------------------
(***************************************************************************)
(* The contacts a caller keeps: the list in the browser's localStorage and *)
(* the copy every open tab reads once, when it loads, and writes back as a *)
(* whole with each change.  No tab listens to the others (there is no      *)
(* "storage" event handler), and a write that fails is not reported.       *)
(***************************************************************************)
EXTENDS Naturals, SequencesExt

CONSTANTS
  Tabs,
  Names,      \* names as findIndex compares them, in lower case
  Cards,      \* endpoints of Call Cards
  MaxSaves    \* bound: contacts saved

ASSUMPTION MaxSavesAssumption == MaxSaves \in Nat

VARIABLES
  stored,      \* localStorage "gocord.contacts"
  list,        \* list[t]: state.contacts of tab t
  saves,       \* contacts saved so far: the source of their ids
  \* What happened, for the properties:
  meant,       \* the contacts that are saved and neither deleted nor replaced
  overwritten, \* the contacts on which a tab's list and the storage differed when it wrote
  unsaved,     \* the contacts a write that failed would have added or taken
  matchedTwo   \* a save matched two contacts, one by name and one by card

history == <<meant, overwritten, unsaved, matchedTwo>>
contactsVars == <<stored, list, saves, history>>

Contact == [id : 1..MaxSaves, name : Names, card : Cards]
Blank == "blank"
NotACard == "no card"

\* What may be pasted: a link, its token, the card's JSON in either of its two
\* shapes, or something else.
Text == [form : {"link", "token", "json"}, card : Cards] \cup {[form |-> "other", card |-> NotACard]}

ContactsInit ==
  /\ stored = <<>>
  /\ list = [t \in Tabs |-> <<>>]
  /\ saves = 0
  /\ meant = {} /\ overwritten = {} /\ unsaved = {} /\ matchedTwo = FALSE

-----------------------------------------------------------------------------
Differ(s, u) == (ToSet(s) \ ToSet(u)) \cup (ToSet(u) \ ToSet(s))

\* saveContacts: the tab takes the new list whether or not it could be stored.
SaveContacts(t, updated) ==
  /\ list' = [list EXCEPT ![t] = updated]
  /\ \/ /\ stored' = updated
        /\ overwritten' = overwritten \cup Differ(list[t], stored)
        /\ UNCHANGED unsaved
     \/ /\ unsaved' = unsaved \cup Differ(updated, stored)
        /\ UNCHANGED <<stored, overwritten>>

\* loadContacts, when a tab is opened or reloaded.
LoadContacts(t) ==
  /\ list' = [list EXCEPT ![t] = stored]
  /\ UNCHANGED <<stored, saves, history>>

\* parseCallCard: what comes after "#card=" is decoded, else read as JSON.
Parse(text) == IF text.form = "other" THEN NotACard ELSE text.card

\* MUTANT: only the card is compared.
MatchesCard(c, name, card) == c.card = card

Matches(c, name, card) == c.card = card \/ c.name = name

Matching(t, name, card) == {i \in DOMAIN list[t] : Matches(list[t][i], name, card)}

\* handleSaveContact: the first contact with the card or the name is replaced,
\* and only that one.
HandleSaveContact(t, name, text) ==
  LET card == Parse(text)
      c == [id |-> saves + 1, name |-> name, card |-> card]
      found == Matching(t, name, card)
      first == CHOOSE i \in found : \A j \in found : i <= j
  IN /\ name # Blank
     /\ card # NotACard
     /\ saves < MaxSaves
     /\ saves' = saves + 1
     /\ SaveContacts(t, IF found = {} THEN Append(list[t], c)
                                      ELSE [list[t] EXCEPT ![first] = c])
     /\ meant' = (IF found = {} THEN meant ELSE meant \ {list[t][first]}) \cup {c}
     /\ matchedTwo' = (matchedTwo \/ \E i, j \in found : i # j)

\* MUTANT: every contact with the name of the one deleted goes.
DeleteByName(t, c) ==
  /\ SaveContacts(t, SelectSeq(list[t], LAMBDA d : d.name # c.name))
  /\ meant' = meant \ {c}
  /\ UNCHANGED <<saves, matchedTwo>>

\* filter(c => c.id !== id): the contacts of s with another id, in their order.
Without(s, id) ==
  LET kept[n \in 0..Len(s)] ==
        IF n = 0 THEN <<>>
        ELSE IF s[n].id = id THEN kept[n - 1] ELSE Append(kept[n - 1], s[n])
  IN kept[Len(s)]

\* deleteContact
DeleteContact(t, c) ==
  /\ SaveContacts(t, Without(list[t], c.id))
  /\ meant' = meant \ {c}
  /\ UNCHANGED <<saves, matchedTwo>>

ContactsNext ==
  \E t \in Tabs :
    \/ LoadContacts(t)
    \/ \E name \in Names \cup {Blank}, text \in Text : HandleSaveContact(t, name, text)
    \/ \E c \in ToSet(list[t]) : DeleteContact(t, c)

ContactsSpec == ContactsInit /\ [][ContactsNext]_contactsVars

-----------------------------------------------------------------------------
(* Properties *)

ContactsTypeOK ==
  /\ saves \in 0..MaxSaves
  /\ stored \in Seq(Contact)
  /\ list \in [Tabs -> Seq(Contact)]
  /\ meant \subseteq Contact /\ overwritten \subseteq Contact /\ unsaved \subseteq Contact
  /\ matchedTwo \in BOOLEAN

\* What is stored is what the user saved and did not delete or replace, in
\* whichever tab, except for the contacts a tab wrote over that had read the
\* list before another one changed it, and for those of a write that failed
\* (saveContacts, handleSaveContact, deleteContact).
LostByMishapOnly ==
  /\ meant \ ToSet(stored) \subseteq overwritten \cup unsaved
  /\ ToSet(stored) \ meant \subseteq overwritten \cup unsaved

\* No two contacts of a list have a name or a card in common, as long as no
\* save matched two of them: of those only the first one is replaced
\* (handleSaveContact), and the other goes on ringing an old card.
OneEach ==
  ~matchedTwo =>
    \A s \in {stored} \cup {list[t] : t \in Tabs} :
      \A i, j \in DOMAIN s : i # j => s[i].name # s[j].name /\ s[i].card # s[j].card
=============================================================================
