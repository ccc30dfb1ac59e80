\* An open error in the directory iterator ends the upload loop and Create
\* reports success with staged files missing from the bucket.
CONSTANTS
    MaxFaults = 1
    MaxRestarts = 0
SPECIFICATION Spec
PROPERTIES
    SuccessUploadsAll
CHECK_DEADLOCK FALSE
