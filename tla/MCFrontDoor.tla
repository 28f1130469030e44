---------------------------- MODULE MCFrontDoor ----------------------------
(***************************************************************************)
(* A small instance of FrontDoor for TLC: two offers, which the catalog    *)
(* may project to two names, to one, or to the name of a built-in tool.    *)
(***************************************************************************)
EXTENDS FrontDoor

MCCatalogOrder == <<"echo", "ocr">>
MCNames == {"ausca_echo", "ausca_ocr", "ausca_catalog"}
============================================================================
