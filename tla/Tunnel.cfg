CONSTANTS MaxUp = 2  MaxDown = 2  MaxReopens = 1  MaxRestarts = 1
SPECIFICATION Spec
INVARIANTS TypeOK DownInOrder AckedUploadArrives LostUploadIsNoticed
PROPERTIES UploadIsByteStream DownloadIsByteStream
CHECK_DEADLOCK FALSE
