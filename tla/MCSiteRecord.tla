----------------------------- MODULE MCSiteRecord -----------------------------
(* One site with one interval: sites share nothing but the tick's turn to mail, *)
(* and an interval's length is seen only in whether it has passed.              *)
EXTENDS SiteRecord
=============================================================================
