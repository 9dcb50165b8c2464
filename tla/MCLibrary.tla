------------------------------ MODULE MCLibrary ------------------------------
(* What the device keeps, in parts checked side by side: the library and its  *)
(* quota (Library), the files it hands to the video element (MediaServe) and  *)
(* the keypair that is its user (Keystore).  A behaviour belongs to the part  *)
(* its first state names and leaves the variables of the others as they began.*)
EXTENDS Library, MediaServe, Keystore

VARIABLE part

deviceVars == <<part, vars, mediaVars, keystoreVars>>

DeviceInit ==
    /\ part \in {"library", "media", "identity"}
    /\ Init /\ MediaInit /\ KeystoreInit
    /\ part # "media" => size = 0                       \* not theirs to vary

LibraryPart  == part = "library" /\ Next /\ UNCHANGED <<part, mediaVars, keystoreVars>>
MediaPart    == part = "media" /\ MediaNext /\ UNCHANGED <<part, vars, keystoreVars>>
IdentityPart == part = "identity" /\ KeystoreNext /\ UNCHANGED <<part, vars, mediaVars>>

DeviceSpec == DeviceInit /\ [][LibraryPart \/ MediaPart \/ IdentityPart]_deviceVars

(* Content 1 is downloaded and imported under another name, a second import   *)
(* takes it again or takes content 2, and only one of the two fits.           *)
CONSTANTS i1, i2, w
MCSize == [c \in Contents |-> 1]
MCAsked == {<<w, <<1, 1>>>>, <<i1, <<1, 2>>>>, <<i2, <<1, 2>>>>, <<i2, <<2, 1>>>>}

(* The first request asks the media item every range of small numbers, the    *)
(* second plays it from the start; both ask the rest of the protocol too.     *)
CONSTANTS q1, q2
Range(kind, a, b) == [kind |-> kind, a |-> a, b |-> b]
MCRanges ==
    LET Number == 0..4
    IN  {Absent, Range("other", 0, 0)}
        \cup {Range(kind, n, 0): kind \in {"from", "last"}, n \in Number}
        \cup {Range("span", n, k): n \in Number, k \in Number}
MCAsks ==
    ({q1} \X {"media"} \X MCRanges) \cup {<<q2, "media", Range("from", 0, 0)>>}
    \cup ({q1, q2} \X (Targets \ {"media"}) \X {Absent})
=============================================================================
