SPECIFICATION RunSpec
CONSTANTS
  c1 = c1  c2 = c2  c3 = c3
  x = x  y = y  z = z
  Clients <- ThreeClients
  FdLimit = 5
  Leavers <- OneLeaver
  Workloads <- SentOrSilent
  Ids <- OneId
  NoId = noid
  Bytes <- ThreeBytes
  Nul = nul
  Missing = missing
  Photos <- Before
  MaxBuffer = 4
  MaxPhotoSize = 10
  ReadSize = 4
  SendSize = 6
  Nobody = nobody
  Cr = cr  Lf = lf  Eos = eos
  FieldName = fieldname
  text = text
  Words <- OtherText
  SizeLimit = 16
  Texts <- AllTexts
  MaxSpoilt = 4
  MaxFailures = 1
INVARIANTS
  TypeOK
  UploadStored
  AnswersExact
  
CHECK_DEADLOCK FALSE
