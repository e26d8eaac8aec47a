-------------------------- MODULE MCRequestBuilder --------------------------
(* Message sets of RequestBuilder for TLC. *)
EXTENDS RequestBuilder

(* Filters a flow would normally set: a condition, or "" for "every row". *)
MCFilters == {Str(""), Str("id=5")}

(* ... and false, which msg.filter = id && ("id=" + id) gives for no id. *)
MCFiltersWithFalse == {Str(""), Str("id=5"), Bool(FALSE)}
=============================================================================
