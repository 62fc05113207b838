\* Every reply with a count in -1..2 and up to two items (codes Success or
\* e1, assets a1 / a2, truncated anywhere), for download and upload.
CONSTANTS
    Assets <- MCAssets
    Errs <- MCErrs
    MaxItems <- MCMaxItems
    Success = Success
    NoLen = NoLen
    NoAsset = NoAsset
SPECIFICATION Spec
INVARIANT ResultsFollowReply
INVARIANT ItemErrorNotFatal
