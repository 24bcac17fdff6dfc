------------------------------ MODULE MCNvram ------------------------------
(***************************************************************************)
(* Two games with their own stores and renames that may fail; one game     *)
(* whose user changes the storage option.                                  *)
(***************************************************************************)
EXTENDS Nvram

TwoGames == {"g1", "g2"}

OwnStores == [games : {TwoGames}, options : {{FALSE}}, rename_fails : BOOLEAN]
ChangingOption == [games : {{"g1"}}, options : {BOOLEAN}, rename_fails : {FALSE}]
AnyInstallation == OwnStores \cup ChangingOption
=============================================================================
