-------------------------------- MODULE Mysql --------------------------------
(***************************************************************************)
(* class MysqlClass: its handle, and what its operations may end with.     *)
(* Each operation is defined for every handle it may find.  connect makes  *)
(* the handle NULL and keeps nothing of what mysql_real_connect returns,   *)
(* so no operation ever finds one that is open; and exec asks for the      *)
(* result of a query only when the query failed.  What comes of a call     *)
(* that the client library does not define is a constant.                  *)
(***************************************************************************)
CONSTANT Misuse     (* outcomes of a call the library does not define:     *)
                    (* "crash", "fail", or "ok", as if it were a right one *)

ASSUME MisuseAssumption == Misuse \subseteq {"crash", "fail", "ok"}

(* _mysqlPoint: no value before connect, NULL behind it; mysql_close       *)
(* closes an open one and does nothing with NULL.                          *)
Handles == {"unset", "null", "open", "closed"}
Connected == "null"
Close(handle) == IF handle = "open" THEN "closed" ELSE handle

Outcomes(handle) == IF handle = "open" THEN {"ok", "fail"} ELSE Misuse

(* mysql_real_connect is given the NULL.                                   *)
Connect == Outcomes(Connected)

(* mysql_query returns 0 for success, which exec takes for failure; only   *)
(* of a query that failed is the result asked for.                         *)
StoreResult(handle) ==
  {CASE s = "ok" -> "result" [] s = "fail" -> "null" [] OTHER -> s : s \in Outcomes(handle)}
Exec(handle) ==
  UNION {CASE q = "fail" -> StoreResult(handle) [] q = "ok" -> {"null"} [] OTHER -> {q} :
           q \in Outcomes(handle)}

(* mysql_fetch_row of a result; of NULL it is not defined.                 *)
FetchRowOfNull ==
  {CASE f = "ok" -> "row" [] f = "fail" -> "none" [] OTHER -> f : f \in Misuse}
FirstRow(handle) ==
  UNION {CASE r = "result" -> {"row", "none"} [] r = "null" -> FetchRowOfNull
           [] OTHER -> {r} : r \in Exec(handle)}

(* insert escapes, queries, and asks for the number of the row: what it    *)
(* stored before a crash is stored, and where the query fails it returns.  *)
Insert(handle) ==
  {result \in [stored : BOOLEAN, returns : BOOLEAN] :
     \E escape, query, id \in Outcomes(handle) :
       /\ result.stored = (escape # "crash" /\ query = "ok")
       /\ result.returns = ("crash" \notin {escape, query, id})}
=============================================================================
