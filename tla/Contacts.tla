------------------------------ MODULE Contacts ------------------------------
(***************************************************************************)
(* The addresses that diners leave (guestContacts.js).  An address left to *)
(* receive an invoice is no consent to advertising: the consent is a       *)
(* purpose of its own, with the moment it was given, and a withdrawal      *)
(* outlives it.  Each operation is one statement on one row, so the order  *)
(* of the statements is all there is to interleave.                        *)
(***************************************************************************)
CONSTANTS Guests,   \* addresses, normalised: one row each
          Visits,   \* requests that leave an address, each at its moment
          NoVisit

ASSUME ContactsAssumption == NoVisit \notin Visits

VARIABLES
  contacts,   \* guest_contacts: [stored, consents, proof, withdrawn]
  saidYes     \* the requests whose diner ticked the box, with the address
contactVars == <<contacts, saidYes>>

(* proof: consent_at and consent_source, as the request that gave them.    *)
Contact == [stored : BOOLEAN, consents : BOOLEAN, proof : Visits \cup {NoVisit}, withdrawn : BOOLEAN]

ContactsTypeOK ==
  /\ contacts \in [Guests -> Contact]
  /\ saidYes \subseteq Guests \X Visits

ContactsInit ==
  /\ contacts = [g \in Guests |-> [stored |-> FALSE, consents |-> FALSE,
                                   proof |-> NoVisit, withdrawn |-> FALSE]]
  /\ saidYes = {}

(* A yes counts unless the address was withdrawn; a missing one takes      *)
(* nothing back.                                                           *)
Consents(c, yes) == ~c.withdrawn /\ (yes \/ c.consents)

(* The proof is that of the first yes of a consent.                        *)
Proof(c, yes, v) == IF ~c.withdrawn /\ yes /\ ~c.consents THEN v ELSE c.proof

Upsert(g, v, yes) ==
  /\ contacts' = [contacts EXCEPT ![g] = [stored |-> TRUE, consents |-> Consents(@, yes),
                                          proof |-> Proof(@, yes, v), withdrawn |-> @.withdrawn]]
  /\ saidYes' = IF yes THEN saidYes \cup {<<g, v>>} ELSE saidYes

(* The row stays, and its proof.                                           *)
Withdraw(g) ==
  /\ contacts[g].stored
  /\ contacts' = [contacts EXCEPT ![g].consents = FALSE, ![g].withdrawn = TRUE]
  /\ UNCHANGED saidYes

ContactsStep ==
  \E g \in Guests : Withdraw(g) \/ \E v \in Visits, yes \in BOOLEAN : Upsert(g, v, yes)
ContactsSpec == ContactsInit /\ [][ContactsStep]_contactVars

(* The list a restaurant may write to.                                     *)
ListConsented == {g \in Guests : contacts[g].consents /\ ~contacts[g].withdrawn}

-----------------------------------------------------------------------------
(* Whoever the restaurant may write to has said yes, and the proof that is *)
(* kept names the request in which they did; it is kept when they withdraw *)
(* as well (guestContacts.js, migration 042: "lo que hay que poder enseñar *)
(* es cuándo se dio y desde dónde").                                       *)
ConsentIsProven ==
  \A g \in Guests :
    /\ contacts[g].consents => g \in ListConsented /\ contacts[g].proof # NoVisit
    /\ contacts[g].proof # NoVisit => <<g, contacts[g].proof>> \in saidYes

(* Leaving the address again, with or without the box, brings nobody back  *)
(* to the list they left (guestContacts.js: "Volver a dejar el correo no   *)
(* reactiva un consentimiento retirado"), and loses no proof.              *)
WithdrawnStays ==
  [][\A g \in Guests : contacts[g].withdrawn =>
       /\ g \notin ListConsented'
       /\ contacts'[g].withdrawn /\ contacts'[g].proof = contacts[g].proof]_contactVars

=============================================================================
