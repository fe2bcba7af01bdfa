----------------------------- MODULE MCPaperwork ------------------------------
(* An instance of Paperwork for TLC. *)
EXTENDS Paperwork, TLC

CONSTANTS admin, keeper

Staff == admin :> "ADMIN" @@ keeper :> "WAREHOUSE"
MCRole == [u \in Users |-> Staff[u]]
DocumentEndpoints ==
  {"uploadDocument", "getLabel", "remove", "login", "updateGps", "findAll"}

===============================================================================
