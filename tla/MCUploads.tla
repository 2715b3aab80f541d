------------------------------ MODULE MCUploads ------------------------------
(* Instances of Uploads for TLC: f of three bytes in the directory itself, g *)
(* of one byte in a directory below it.                                      *)
EXTENDS Uploads

MCSize == ("f" :> 3) @@ ("g" :> 1)
MCDir == ("f" :> "top") @@ ("g" :> "sub")
MCExt == ("f" :> "x") @@ ("g" :> "y")
MCEntries == <<"f", "g">>

MCEverything == [extensions |-> {}, ignorePaths |-> {}, ignoreFiles |-> {}, ignoreExtensions |-> {}]
MCRequests ==
  {MCEverything,
   [MCEverything EXCEPT !.extensions = {"x"}],
   [MCEverything EXCEPT !.ignorePaths = {"sub"}]}
==============================================================================
