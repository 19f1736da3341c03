-------------------------------- MODULE Menu --------------------------------
(***************************************************************************)
(* The menu of one restaurant (routes/menu.js): sections and dishes with   *)
(* their places, photographs, the pictures and the document of the house,  *)
(* and the import of a list that was read from a photograph and corrected  *)
(* by a person.  Prices, taxes and texts are left out.                     *)
(*                                                                         *)
(* Sections and dishes are named by their names, which are unique; what    *)
(* refers to a row follows it to its new name.  Every change is one        *)
(* statement or one transaction, but for the import, which looks its       *)
(* sections up one by one before it writes: what it found may be renamed   *)
(* or deleted, and what it did not find may be created, before it uses it. *)
(***************************************************************************)
EXTENDS Naturals, Sequences, FiniteSets

CONSTANTS
  Sections, Dishes,
  Lists,          \* the lists that may be imported
  Imports,        \* imports at once
  Pictures,       \* the cover, the logo and the document
  LastPlace,      \* bound: places in a section
  MaxPictures,    \* bound: pictures there are at once
  Loose,          \* the dishes of no section are filed under it
  NoRow

ASSUME MenuAssumption ==
  /\ Lists \subseteq Seq([name : Dishes, section : Sections \cup {Loose}])
  /\ Loose \notin Sections /\ LastPlace \in Nat /\ MaxPictures \in Nat
  /\ IsFiniteSet(Sections) /\ IsFiniteSet(Dishes)

VARIABLES
  sections, dishes,
  pictures,     \* what is there of Pictures, and the dishes with a photograph
  imports

menuVars == <<sections, dishes, pictures, imports>>

Section == [place : Nat, on : BOOLEAN]
Dish == [section : Sections \cup {Loose}, place : Nat, on : BOOLEAN]
Found == [Sections -> Sections \cup {Loose, NoRow}]
Import == [list : Lists, next : Nat, seen : SUBSET Sections, found : Found]

ASSUME NoRowIsNoRow ==
  /\ NoRow \notin Sections \cup {Loose}
  /\ NoRow \notin Section /\ NoRow \notin Dish /\ NoRow \notin Import

MenuTypeOK ==
  /\ sections \in [Sections -> Section \cup {NoRow}]
  /\ dishes \in [Dishes -> Dish \cup {NoRow}]
  /\ pictures \subseteq Pictures \cup Dishes
  /\ imports \in [Imports -> Import \cup {NoRow}]

MenuInit ==
  /\ sections = [s \in Sections |-> NoRow] /\ dishes = [d \in Dishes |-> NoRow]
  /\ pictures = {} /\ imports = [i \in Imports |-> NoRow]

-----------------------------------------------------------------------------
(* Places.                                                                 *)

HasSection(s) == sections[s] # NoRow
HasDish(d) == dishes[d] # NoRow
DishesOf(s) == {d \in Dishes : HasDish(d) /\ dishes[d].section = s}

After(places) == IF places = {} THEN 0 ELSE 1 + CHOOSE p \in places : \A q \in places : q <= p
LastSection == After({sections[s].place : s \in {s \in Sections : HasSection(s)}})
EndOf(s) == After({dishes[d].place : d \in DishesOf(s)})

(* The foreign key of a dish to its section.                               *)
Fileable(s) == s # Loose => HasSection(s)

(* What a diner is shown: nothing of a section that is off.                *)
PublicMenu ==
  {d \in Dishes : /\ HasDish(d) /\ dishes[d].on
                  /\ dishes[d].section # Loose => sections[dishes[d].section].on}

-----------------------------------------------------------------------------
(* Sections.                                                               *)

(* At the place asked for, or behind those there were a moment ago.        *)
CreateSection(s, place, on) ==
  /\ ~HasSection(s)
  /\ sections' = [sections EXCEPT ![s] = [place |-> place, on |-> on]]
  /\ UNCHANGED <<dishes, pictures, imports>>

(* What an import found is now another row, or none.                       *)
Refound(s, t) ==
  [i \in Imports |->
     IF imports[i] = NoRow THEN NoRow
     ELSE [imports[i] EXCEPT !.found =
            [u \in Sections |-> IF imports[i].found[u] = s THEN t ELSE imports[i].found[u]]]]

Refiled(s, t) ==
  [d \in Dishes |-> IF d \in DishesOf(s) THEN [dishes[d] EXCEPT !.section = t] ELSE dishes[d]]

(* A new name, place and standing, or the old ones.                        *)
UpdateSection(s, t, place, on) ==
  /\ HasSection(s) /\ (t # s => ~HasSection(t))
  /\ sections' = [sections EXCEPT ![s] = NoRow, ![t] = [place |-> place, on |-> on]]
  /\ dishes' = Refiled(s, t) /\ imports' = Refound(s, t)
  /\ UNCHANGED pictures

(* An order names sections that all exist, or nothing is moved.            *)
ReorderSections(order) ==
  /\ \A n \in DOMAIN order : HasSection(order[n])
  /\ sections' = [s \in Sections |->
       IF \E n \in DOMAIN order : order[n] = s
       THEN [sections[s] EXCEPT !.place = (CHOOSE n \in DOMAIN order : order[n] = s) - 1]
       ELSE sections[s]]
  /\ UNCHANGED <<dishes, pictures, imports>>

(* Its dishes stay, on, filed under none, and so are shown again if it was *)
(* off.                                                                    *)
Orphaned(row) == [row EXCEPT !.section = Loose]

DeleteSection(s) ==
  /\ HasSection(s)
  /\ sections' = [sections EXCEPT ![s] = NoRow]
  /\ dishes' = [d \in Dishes |-> IF d \in DishesOf(s) THEN Orphaned(dishes[d]) ELSE dishes[d]]
  /\ imports' = Refound(s, NoRow)
  /\ UNCHANGED pictures

-----------------------------------------------------------------------------
(* Dishes.                                                                 *)

CreateDish(d, s, on) ==
  /\ ~HasDish(d) /\ Fileable(s) /\ EndOf(s) \in 0 .. LastPlace
  /\ dishes' = [dishes EXCEPT ![d] = [section |-> s, place |-> EndOf(s), on |-> on]]
  /\ UNCHANGED <<sections, pictures, imports>>

(* A new name, section and standing, or the old ones; moved to another     *)
(* section a dish goes to its end.                                         *)
UpdateDish(d, e, s, on) ==
  LET place == IF s = dishes[d].section THEN dishes[d].place ELSE EndOf(s) IN
  /\ HasDish(d) /\ (e # d => ~HasDish(e)) /\ Fileable(s) /\ place \in 0 .. LastPlace
  /\ dishes' = [dishes EXCEPT ![d] = NoRow, ![e] = [section |-> s, place |-> place, on |-> on]]
  /\ pictures' = IF d \in pictures THEN (pictures \ {d}) \cup {e} ELSE pictures
  /\ UNCHANGED <<sections, imports>>

(* The order of one section names its dishes, all and no other, with their *)
(* rows locked.                                                            *)
ReorderDishes(s, order) ==
  /\ {order[n] : n \in DOMAIN order} = DishesOf(s)
  /\ dishes' = [d \in Dishes |->
       IF d \in DishesOf(s)
       THEN [dishes[d] EXCEPT !.place = (CHOOSE n \in DOMAIN order : order[n] = d) - 1]
       ELSE dishes[d]]
  /\ UNCHANGED <<sections, pictures, imports>>

(* For good, with its photograph; or only switched off.                    *)
DeleteDish(d, permanent) ==
  /\ HasDish(d)
  /\ dishes' = IF permanent THEN [dishes EXCEPT ![d] = NoRow]
                            ELSE [dishes EXCEPT ![d].on = FALSE]
  /\ pictures' = IF permanent THEN pictures \ {d} ELSE pictures
  /\ UNCHANGED <<sections, imports>>

-----------------------------------------------------------------------------
(* Pictures: a new one takes the place of the old one.                     *)

Upload(picture) ==
  /\ Cardinality(pictures \cup {picture}) <= MaxPictures
  /\ pictures' = pictures \cup {picture}
  /\ UNCHANGED <<sections, dishes, imports>>

Remove(picture) ==
  /\ picture \in pictures /\ pictures' = pictures \ {picture}
  /\ UNCHANGED <<sections, dishes, imports>>

UploadPhoto(d) == HasDish(d) /\ Upload(d)
DeletePhoto(d) == HasDish(d) /\ Remove(d)
UploadPdf == "PDF" \in Pictures /\ Upload("PDF")
DeletePdf == Remove("PDF")
UploadBranding(kind) == kind # "PDF" /\ Upload(kind)
DeleteBranding(kind) == kind # "PDF" /\ Remove(kind)

-----------------------------------------------------------------------------
(* The import, one transaction.                                            *)

Named(list) == {list[n].section : n \in DOMAIN list} \ {Loose}

(* Where the sections it makes will stand, and then each section in the    *)
(* order of its first line; Loose stands for one that is to be made.       *)
BeginImport(i, list) ==
  /\ imports[i] = NoRow /\ LastSection \in 0 .. LastPlace + 1
  /\ imports' = [imports EXCEPT ![i] =
       [list |-> list, next |-> LastSection, seen |-> {}, found |-> [s \in Sections |-> NoRow]]]
  /\ UNCHANGED <<sections, dishes, pictures>>

Precedes(list, s, t) ==
  \E n \in DOMAIN list : list[n].section = s /\ \A m \in 1 .. n : list[m].section # t

FindSection(i, s) ==
  /\ imports[i] # NoRow /\ s \in Named(imports[i].list) \ imports[i].seen
  /\ \A t \in Named(imports[i].list) : Precedes(imports[i].list, t, s) => t \in imports[i].seen
  /\ imports' = [imports EXCEPT ![i] =
       [imports[i] EXCEPT !.seen = @ \cup {s}, !.found[s] = IF HasSection(s) THEN s ELSE Loose]]
  /\ UNCHANGED <<sections, dishes, pictures>>

Missing(i) == {s \in Named(imports[i].list) : imports[i].found[s] = Loose}

(* Those to be made stand one behind the other.                            *)
NewPlace(i, t) ==
  imports[i].next + Cardinality({s \in Missing(i) : Precedes(imports[i].list, s, t)})

(* Wrong: a line is filed under whatever was found before.                 *)
StandAlways(i) == TRUE
(* The names of those it makes are free, and those it found are there.     *)
SectionsStand(i) ==
  \A s \in Named(imports[i].list) :
    IF s \in Missing(i) THEN ~HasSection(s) ELSE imports[i].found[s] # NoRow

(* The row a line is filed under.                                          *)
Filed(i, s) == IF s = Loose \/ s \in Missing(i) THEN s ELSE imports[i].found[s]

(* Each line has a savepoint: a name that is taken costs that line only.   *)
LinesWritten(list) ==
  {n \in DOMAIN list : /\ ~HasDish(list[n].name)
                       /\ \A m \in 1 .. n - 1 : list[m].name # list[n].name}

(* Dishes take the place of their line in the list.                        *)
Written(i, d) ==
  LET list == imports[i].list
      n == CHOOSE n \in LinesWritten(list) : list[n].name = d
  IN [section |-> Filed(i, list[n].section), place |-> n - 1, on |-> TRUE]

ImportItems(i) ==
  /\ imports[i] # NoRow /\ imports[i].seen = Named(imports[i].list)
  /\ SectionsStand(i) /\ \A s \in Missing(i) : NewPlace(i, s) \in 0 .. LastPlace
  /\ sections' = [s \in Sections |->
       IF s \in Missing(i) THEN [place |-> NewPlace(i, s), on |-> TRUE] ELSE sections[s]]
  /\ LET list == imports[i].list
         names == {list[n].name : n \in LinesWritten(list)}
     IN dishes' = [d \in Dishes |-> IF d \in names THEN Written(i, d) ELSE dishes[d]]
  /\ imports' = [imports EXCEPT ![i] = NoRow]
  /\ UNCHANGED pictures

(* Any other error, or the death of the process, rolls all of it back.     *)
RollBack(i) ==
  /\ imports[i] # NoRow
  /\ imports' = [imports EXCEPT ![i] = NoRow]
  /\ UNCHANGED <<sections, dishes, pictures>>

-----------------------------------------------------------------------------
Orderings(S) == {order \in [1 .. Cardinality(S) -> S] : {order[n] : n \in DOMAIN order} = S}

MenuStep ==
  \/ \E s \in Sections :
       \/ DeleteSection(s)
       \/ \E place \in 0 .. LastPlace, on \in BOOLEAN :
            CreateSection(s, place, on) \/ \E t \in Sections : UpdateSection(s, t, place, on)
  \/ \E S \in SUBSET Sections : \E order \in Orderings(S) : ReorderSections(order)
  \/ \E d \in Dishes :
       \/ \E s \in Sections \cup {Loose}, on \in BOOLEAN :
            CreateDish(d, s, on) \/ \E e \in Dishes : UpdateDish(d, e, s, on)
       \/ \E permanent \in BOOLEAN : DeleteDish(d, permanent)
       \/ UploadPhoto(d) \/ DeletePhoto(d)
  \/ \E s \in Sections \cup {Loose} : \E order \in Orderings(DishesOf(s)) : ReorderDishes(s, order)
  \/ UploadPdf \/ DeletePdf
  \/ \E kind \in Pictures : UploadBranding(kind) \/ DeleteBranding(kind)
  \/ \E i \in Imports : \/ ImportItems(i) \/ RollBack(i)
                        \/ \E list \in Lists : BeginImport(i, list)
                        \/ \E s \in Sections : FindSection(i, s)

MenuSpec == MenuInit /\ [][MenuStep]_menuVars

-----------------------------------------------------------------------------
(* An import that ends has written every line whose name was free, in the  *)
(* section it named when it was looked up, whatever that is called by now, *)
(* and which exists, or nothing at all; and it never touches a dish that   *)
(* was there.  ("One duplicate name does not discard the other             *)
(* forty-nine".)                                                           *)
ImportIsWhole ==
  [][\A i \in Imports : imports[i] # NoRow /\ imports'[i] = NoRow =>
       \/ UNCHANGED <<sections, dishes>>
       \/ /\ \A d \in Dishes : HasDish(d) => dishes'[d] = dishes[d]
          /\ \A n \in DOMAIN imports[i].list :
               LET line == imports[i].list[n] IN
               ~HasDish(line.name) =>
                 /\ dishes'[line.name] # NoRow
                 /\ dishes'[line.name].section \in {Loose} \cup {s \in Sections : sections'[s] # NoRow}
                 /\ \E m \in 1 .. n :
                      LET first == imports[i].list[m] IN
                      /\ first.name = line.name
                      /\ \/ dishes'[line.name].section = first.section
                         \/ /\ first.section # Loose
                            /\ dishes'[line.name].section = imports[i].found[first.section]]_menuVars
=============================================================================
