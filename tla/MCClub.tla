------------------------------- MODULE MCClub -------------------------------
(* Five components beside the places: the links of an email, the members' shop, what later
   messages say of a refusal, the race numbers and a family's sitting.  They share no row; a
   behaviour is one of theirs, the others still. *)
EXTENDS ActionLinks, Shop, DeliveryFacts, RaceNumbers, FamilySitting

CONSTANTS s1, s2

VARIABLE part

LettersKinds(m) == IF m = 1 THEN {"number"} ELSE {"confirmation", "other"}

ClubInit ==
  /\ part \in {"links", "shop", "facts", "numbers", "family"}
  /\ LinkInit /\ ShopInit /\ FactsInit /\ NumbersInit /\ SittingInit

(* A third person comes by the next form, before the clock's last tick; a third person, a second
   sitting and a send that fails do not meet. *)
ThirdComes == mail'[Own(3)].state # "none"
SecondOpens == sitting'[2].open
Apart ==
  /\ ThirdComes => ~SecondOpens /\ hitches' = 0 /\ half'[3] = 0 /\ clock' <= 3
  /\ SecondOpens => hitches' = 0

(* The desk's band, an elite line and an erasure do not meet. *)
OneAtATime ==
  /\ spare'.from # 0 => elite' = {}
  /\ (\E r \in Runners : row'[r].status = "gone" \/ erasing'[r].at # "none") => spare'.from = 0 /\ elite' = {}

ClubNext ==
  \/ part = "links" /\ LinkNext /\ UNCHANGED <<part, shopVars, factsVars, numberVars, sittingVars>>
  \/ part = "shop" /\ ShopNext /\ UNCHANGED <<part, linkVars, factsVars, numberVars, sittingVars>>
  \/ part = "facts" /\ FactsNext /\ UNCHANGED <<part, linkVars, shopVars, numberVars, sittingVars>>
  \/ part = "numbers" /\ NumbersNext /\ OneAtATime /\ UNCHANGED <<part, linkVars, shopVars, factsVars, sittingVars>>
  \/ part = "family" /\ SittingNext /\ Apart /\ UNCHANGED <<part, linkVars, shopVars, factsVars, numberVars>>

ClubVars == <<part, linkVars, shopVars, factsVars, numberVars, sittingVars>>

ClubSpec == ClubInit /\ [][ClubNext]_ClubVars

(* The types of the five, each where it moves. *)
ClubTypeOK ==
  /\ part = "links" => LinkTypeOK
  /\ part = "shop" => ShopTypeOK
  /\ part = "facts" => FactsTypeOK
  /\ part = "numbers" => NumbersTypeOK
  /\ part = "family" => SittingTypeOK
=============================================================================
