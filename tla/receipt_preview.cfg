\* A document is chosen before the preview of an image has been read.
SPECIFICATION FormSpec

CONSTANTS
    NoFile = NoFile
    Files = {image, scan, huge}
    Images = {image, huge}
    Large = {huge}
    Disbursed = 2
    MaxAmount = 2

INVARIANT KeyedByHash

CHECK_DEADLOCK FALSE
