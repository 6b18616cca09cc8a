---------------------------- MODULE MCServices ----------------------------
(***************************************************************************)
(* One instance of the modules that share no state with the orders.  A     *)
(* behaviour is one of one module: the others stay where they start.  So   *)
(* the states of the instance are the sum of those of the modules, and     *)
(* one set of interchangeable requests serves all of them.                 *)
(***************************************************************************)
EXTENDS RiderTeam, Merchants, Sessions, RateLimit, Notices, Payroll, Ratings, Catalog,
        Revisions, Analytics, Selections, Addresses, Favorites, Conversations, TLC

VARIABLE part

Parts == {"team", "shop", "auth", "rate", "notices", "pay", "rating", "menu", "edit",
          "report", "pick", "home", "heart", "talk"}

\* Requests are interchangeable; every other row and user is named by a query.
Interchangeable == Permutations(Handlers)

\* Two restaurants with a menu item each; the second shares its categories.
MCKitchenOf == <<1, 2>>

\* Two orders of one customer, from two restaurants.  The first has two items of
\* which one is free; the second order has one of each.
MCHouseOf == <<"h1", "h2">>
MCLines == <<[i \in {"a", "b"} |-> IF i = "a" THEN 2 ELSE 1], [i \in {"a", "b"} |-> IF i = "a" THEN 0 ELSE 1]>>
MCPrice == [i \in {"a", "b"} |-> IF i = "a" THEN 3 ELSE 7]
MCCategoryOf == [i \in {"a", "b"} |-> "c"]
MCMonthStarts == {-30, 0, 9}
MCTodays == {8, 20}

MCOptionPrice == [x \in {"a", "b"} |-> IF x = "a" THEN 1 ELSE 3]

ServicesInit ==
  /\ part \in Parts
  /\ TeamInit /\ ShopInit /\ AuthInit /\ RateInit /\ NoticeInit /\ PayrollInit /\ RatingInit
  /\ MenuInit /\ EditInit /\ SelectionInit /\ AddressInit /\ FavoriteInit /\ MessageInit
  /\ ReportInit /\ (part # "report" => today = 8 /\ \A t \in Tickets : ticket[t] = NoTicket)

ServicesNext ==
  /\ UNCHANGED part
  /\ \/ /\ part = "team" /\ TeamNext
        /\ UNCHANGED <<shopVars, authVars, rateVars, noticeVars, payVars, ratingVars,
                       menuVars, editVars, reportVars, selectionVars, addressVars, favoriteVars, messageVars>>
     \/ /\ part = "shop" /\ ShopNext
        /\ UNCHANGED <<teamVars, authVars, rateVars, noticeVars, payVars, ratingVars,
                       menuVars, editVars, reportVars, selectionVars, addressVars, favoriteVars, messageVars>>
     \/ /\ part = "auth" /\ AuthNext
        /\ UNCHANGED <<teamVars, shopVars, rateVars, noticeVars, payVars, ratingVars,
                       menuVars, editVars, reportVars, selectionVars, addressVars, favoriteVars, messageVars>>
     \/ /\ part = "rate" /\ RateNext
        /\ UNCHANGED <<teamVars, shopVars, authVars, noticeVars, payVars, ratingVars,
                       menuVars, editVars, reportVars, selectionVars, addressVars, favoriteVars, messageVars>>
     \/ /\ part = "notices" /\ NoticeNext
        /\ UNCHANGED <<teamVars, shopVars, authVars, rateVars, payVars, ratingVars,
                       menuVars, editVars, reportVars, selectionVars, addressVars, favoriteVars, messageVars>>
     \/ /\ part = "pay" /\ PayrollNext
        /\ UNCHANGED <<teamVars, shopVars, authVars, rateVars, noticeVars, ratingVars,
                       menuVars, editVars, reportVars, selectionVars, addressVars, favoriteVars, messageVars>>
     \/ /\ part = "rating" /\ RatingNext
        /\ UNCHANGED <<teamVars, shopVars, authVars, rateVars, noticeVars, payVars,
                       menuVars, editVars, reportVars, selectionVars, addressVars, favoriteVars, messageVars>>
     \/ /\ part = "menu" /\ MenuNext
        /\ UNCHANGED <<teamVars, shopVars, authVars, rateVars, noticeVars, payVars,
                       ratingVars, editVars, reportVars, selectionVars, addressVars, favoriteVars, messageVars>>
     \/ /\ part = "edit" /\ EditNext
        /\ UNCHANGED <<teamVars, shopVars, authVars, rateVars, noticeVars, payVars,
                       ratingVars, menuVars, reportVars, selectionVars, addressVars, favoriteVars, messageVars>>
     \/ /\ part = "report" /\ ReportNext
        /\ UNCHANGED <<teamVars, shopVars, authVars, rateVars, noticeVars, payVars,
                       ratingVars, menuVars, editVars, selectionVars, addressVars, favoriteVars, messageVars>>
     \/ /\ part = "pick" /\ SelectionNext
        /\ UNCHANGED <<teamVars, shopVars, authVars, rateVars, noticeVars, payVars,
                       ratingVars, menuVars, editVars, reportVars, addressVars, favoriteVars, messageVars>>
     \/ /\ part = "home" /\ AddressNext
        /\ UNCHANGED <<teamVars, shopVars, authVars, rateVars, noticeVars, payVars,
                       ratingVars, menuVars, editVars, reportVars, selectionVars, favoriteVars, messageVars>>
     \/ /\ part = "heart" /\ FavoriteNext
        /\ UNCHANGED <<teamVars, shopVars, authVars, rateVars, noticeVars, payVars,
                       ratingVars, menuVars, editVars, reportVars, selectionVars, addressVars, messageVars>>
     \/ /\ part = "talk" /\ MessageNext
        /\ UNCHANGED <<teamVars, shopVars, authVars, rateVars, noticeVars, payVars,
                       ratingVars, menuVars, editVars, reportVars, selectionVars, addressVars, favoriteVars>>

ServicesSpec == ServicesInit /\ [][ServicesNext]_<<part, teamVars, shopVars, authVars, rateVars, noticeVars, payVars, ratingVars,
  menuVars, editVars, reportVars, selectionVars, addressVars, favoriteVars, messageVars>>
=============================================================================
