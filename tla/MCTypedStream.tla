--------------------------- MODULE MCTypedStream ---------------------------
(* The type lists and class chains of a small instance of TypedStream. *)
EXTENDS TypedStream

CONSTANTS NSString, NSObject

MCTypeGroups ==
    { <<"object">>, <<"string">>, <<"embedded">>, <<"object", "int">> }

MCChains == { <<NSString>>, <<NSString, NSObject>> }
=============================================================================
