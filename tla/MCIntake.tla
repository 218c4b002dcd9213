------------------------------- MODULE MCIntake -------------------------------
(* Instances of Intake for TLC. Two clients cut their files in two, under  *)
(* upload_ids that share their assembled file; one of them has sent a part *)
(* that was too long.                                                      *)
EXTENDS Intake, TLC

TwoChunks == {"long", "short"}
ChunkSize == ("long" :> 2) @@ ("short" :> 1)
SharedFile == ("scan.1" :> "scan") @@ ("scan.2" :> "scan")

Send(id, i, c) == [id |-> id, index |-> i, total |-> 2, data |-> c, modality |-> "SAR"]
ChunkSends ==
  {Send("scan.1", 0, "long"), Send("scan.1", 0, "short"), Send("scan.1", 1, "long"),
   Send("scan.2", 0, "short"), Send("scan.2", 1, "short")}

(* The one content that is followed is no raster: what is recorded of it,  *)
(* and must be brought back by a restart, is an error. That of "scan.2" is *)
(* not followed.                                                           *)
Broken == <<"short", "long">>
AllContents == {Broken}

Some(kind, m) == [kind |-> kind, content |-> Broken, modality |-> m]

(* Under a name the preparation does not support. *)
SingleUploads == {Some("other", "SAR")}

TwoBatches == { <<Some("other", "SAR"), Some("image", "OPTICAL")>>, <<Some("toobig", "SAR")>> }

Symmetry == Permutations(Slots)
=============================================================================
