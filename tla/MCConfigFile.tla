---------------------------- MODULE MCConfigFile ----------------------------
(* ConfigFile with names: "Ann" and "ann" differ in case only.  The IDs of a  *)
(* configuration are kept in Base64, which is evaluated here on short inputs. *)
EXTENDS ConfigFile, Base64

MCLower == [n \in Nicknames |-> IF n = "Ann" THEN "ann" ELSE n]

MCRank == [n \in Nicknames |-> CASE n = "Ann" -> 1 [] n = "ann" -> 2 [] OTHER -> 3]

\* Up to five bytes, so with every amount of padding after one group and after none.
ASSUME EncodedIsDecoded ==
  \A bytes \in UNION {[1 .. n -> {0, 1, 63, 170, 255}] : n \in 0 .. 5} :
    RoundTrip(bytes) /\ PaddingOptional(bytes) /\ CapacityUsed(bytes)

\* decode indexes beyond the end of a string of length 5, 9, ... only.
ASSUME PanicsByLength ==
  \A s \in UNION {[1 .. n -> {0, 63, Pad, Bad}] : n \in 0 .. 6} :
    decode(s) = Panic => Len(s) % 4 = 1
=============================================================================
