--------------------------- MODULE MCGalleryImport ----------------------------
(* Four images in three folders; two images have the same content, another one *)
(* shows no face.                                                              *)
EXTENDS GalleryImport

CONSTANTS f1, f2, f3, f4

MCProcesses == {"script"}
MCImages == {f1, f2, f3, f4}
MCVectors == (1..3) \X MCImages
MCOrder == <<f1, f2, f3, f4>>
MCClosing == {1, 3, 4}
MCContent == [f \in MCImages |-> IF f = f3 THEN f1 ELSE f]
MCFit == {f1, f4}

==============================================================================
