--------------------------- MODULE MCElementAction ---------------------------
(* ElementAction for TLC: a form of four fields, a click, a fill and an upload. *)
EXTENDS ElementAction, TLC

CONSTANTS c1, c2, c3, c4

FourCalls == {c1, c2, c3, c4}
Kinds == ("x" :> "text") @@ ("y" :> "text") @@ ("b" :> "toggle") @@ ("s" :> "select") @@ ("f" :> "file")
Tools == (c1 :> "fill_form") @@ (c2 :> "click") @@ (c3 :> "fill") @@ (c4 :> "upload_file")
Forms == (c1 :> <<"b", "x", "s", "y">>) @@ (c2 :> <<"b">>) @@ (c3 :> <<"x">>) @@ (c4 :> <<"f">>)
Checked == (c1 :> TRUE) @@ (c2 :> TRUE) @@ (c3 :> FALSE) @@ (c4 :> TRUE)
=============================================================================
