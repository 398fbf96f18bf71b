---------------------------- MODULE MCSdkUpload ----------------------------
(* Three Files, of two parts, of one and empty, and a Buffer of one part,  *)
(* whose name the first File has as well.                                  *)
EXTENDS SdkUpload, TLC

CONSTANTS c1, c2, c3, c4, f2, f3, upload

MCCalls == {c1, c2, c3, c4}
MCFiles == {c1, c2, c3}
MCFileName == c1 :> upload @@ c2 :> f2 @@ c3 :> f3
MCPartsOf == c1 :> 2 @@ c2 :> 1 @@ c3 :> 0 @@ c4 :> 1
(* The two names the SDK reads, and the one this API gives (videos/handler.go, *)
(* line 323).                                                                  *)
MCFields == {"partNumber", "PartNumber", "part_number"}
=============================================================================
